---- MODULE Spec2Model ----
(***************************************************************************)
(* Discovery-and-ingestion pipeline of the OpenAPI catalog:                *)
(*   - GitHubScraper.searchOpenAPIFiles   (src/src/scraper/github-scraper.js) *)
(*   - ConversionPipeline                 (src/src/pipeline/converter.js)  *)
(*   - CatalogServer POST /api/scrape and runScrape (src/unnamed/part_003) *)
(*   - CatalogDatabase scrape_runs / apis (src/src/database/schema.js)     *)
(*                                                                         *)
(* Specifications:                                                         *)
(*   Spec            one scrape run: trigger, crawl, conversion, finalize  *)
(*   FairSpec        Spec with weak fairness of the run's steps            *)
(*   SpecRanges      the star-range loop header of searchOpenAPIFiles      *)
(*   SpecNormalizer  downloadOpenAPISpec on two downloads                  *)
(*   SpecBatch       processBatch over a list of items                     *)
(*   SpecSave        the save step of runScrape: row, tags, count          *)
(***************************************************************************)
EXTENDS Integers, Sequences, FiniteSets, TLC

VARIABLES
  \* ---- searchOpenAPIFiles (one call) ----
  minStars,      \* options.minStars
  maxResults,    \* options.maxResults
  scraperPc,     \* position in searchOpenAPIFiles
  patternIdx,    \* index of `pattern` in filePatterns
  rangeIdx,      \* index of `range` in starRanges
  page,          \* page of the current query
  items,         \* hits of the current page not yet iterated
  results,       \* const results = []
  seenRepos,     \* const seenRepos = new Set()
  quota,         \* remaining search quota at the API (environment)
  lastSearch,    \* the last search call: query, page, outcome, quota it met
  hitCount,      \* per key: how often the search API has returned it (0, 1, 2 = more than once)
  lastStep,      \* what the last iteration of the item loop did with its hit
  sleptSinceSearch, \* this.sleep was called since the last search call
  \* ---- runScrape / scrape_runs ----
  githubToken,   \* whether this.githubToken is configured
  runPc,         \* position in POST /api/scrape + runScrape
  scrape_runs,   \* the run's row of table scrape_runs
  apiIdx,        \* index of `api` in apis
  processed,     \* let processed = 0
  pipelineLog,   \* per attempted api: the pipeline result and the catalog write
  runWrites,     \* the writes to the run's row, in order
  \* ---- star-range loop header on its own ----
  gateMin,       \* minStars given to the loop
  gateIdx,       \* index of `range`
  gateQueried,   \* ranges for which the loop body ran
  \* ---- downloadOpenAPISpec ----
  dlContent,     \* per download: the bytes the URL serves
  dlFile,        \* per download: the file at filepath
  dlPc,          \* per download: position
  \* ---- processBatch ----
  batchList,     \* apiList
  batchResults,  \* const results = []
  batchPc,       \* position in processBatch
  batchFiles,    \* the files and directories under data/
  batchTrace,    \* per api of the batch: the stages called and those that failed
  \* ---- the save step of runScrape ----
  saveApis,      \* the apis whose pipeline result was success, in loop order
  saveIdx,       \* index of `api`
  apisTable,     \* ids of the rows of table apis
  tagsTable,     \* names of the rows of table tags
  apiTagsTable,  \* rows of table api_tags, as <<api id, tag name>>
  saveProcessed, \* let processed = 0
  \* ---- several scrape runs of one server ----
  runState,      \* per run id: position of its POST /api/scrape and runScrape
  runApis,       \* per run id: const apis = await scraper.searchOpenAPIFiles(options)
  runIdx,        \* per run id: index of `api` in its loop over apis
  runProcessed,  \* per run id: let processed = 0
  runsTable,     \* table scrape_runs: per run id its row
  catalog,       \* the rows of table apis, each with the file it was made from
  runOutcomes,   \* per run id: how each iteration of its loop over apis ended
  rowWrites,     \* <<run, row id>>: the run changed the row with that id
  \* ---- the APIs.guru import ----
  importPc,      \* position of importAll
  importsStarted,\* number of imports requested so far
  skipExisting,  \* option skipExisting of the current import
  maxApis,       \* option maxApis of the current import
  apisToImport,  \* const apisToImport
  importIdx,     \* index of `api` in the loop over apisToImport
  stats,         \* const stats
  apisRows,      \* the rows of table apis written by imports
  importTrace,   \* per iteration of the current import: what it did
  everUnchecked  \* some import so far ran with skipExisting off

crawlVars == <<minStars, maxResults, scraperPc, patternIdx, rangeIdx, page,
               items, results, seenRepos, quota, lastSearch, hitCount,
               lastStep, sleptSinceSearch>>
runVars == <<githubToken, runPc, scrape_runs, apiIdx, processed, pipelineLog,
             runWrites>>
gateVars == <<gateMin, gateIdx, gateQueried>>
dlVars == <<dlContent, dlFile, dlPc>>
batchVars == <<batchList, batchResults, batchPc, batchFiles, batchTrace>>
saveVars == <<saveApis, saveIdx, apisTable, tagsTable, apiTagsTable, saveProcessed>>
multiVars == <<runState, runApis, runIdx, runProcessed, runsTable, catalog,
               runOutcomes, rowWrites>>
importVars == <<importPc, importsStarted, skipExisting, maxApis, apisToImport,
                importIdx, stats, apisRows, importTrace, everUnchecked>>
moreVars == <<multiVars, importVars>>
sideVars == <<gateVars, dlVars, batchVars, saveVars, moreVars>>
vars == <<crawlVars, runVars, gateVars, dlVars, batchVars, saveVars, moreVars>>

(***************************************************************************)
(* Star ranges (github-scraper.js 35-48)                                   *)
(***************************************************************************)
\* `max: null` of the open range (no star count is negative)
NoMax == -1

\* a NULL column
Null == "null"

starRanges ==
  << [min |-> 1000, max |-> NoMax, label |-> "1000+"],
     [min |-> 100,  max |-> 999,  label |-> "100-999"],
     [min |-> 10,   max |-> 99,   label |-> "10-99"],
     [min |-> 1,    max |-> 9,    label |-> "1-9"],
     [min |-> 0,    max |-> 0,    label |-> "0"] >>

\* the two `continue` tests at the head of the range loop
SkipRange(range, min_stars) ==
  \/ (range.max # NoMax /\ range.max < min_stars)
  \/ (range.min < min_stars /\ range.max = NoMax)

\* whether a repo with s stars matches the star qualifier built for the range
\* (stars:>=min, stars:min, stars:min..max)
InRange(s, range) ==
  IF range.max = NoMax THEN s >= range.min
  ELSE IF range.min = range.max THEN s = range.min
  ELSE range.min <= s /\ s <= range.max

(***************************************************************************)
(* Documents and their encodings (converter.js 72-108)                     *)
(*                                                                         *)
(* A document is the value a parser yields: an object with or without the  *)
(* two version fields, or null.  A field is absent, the empty string (a    *)
(* falsy value in JavaScript) or a version string.  A text is an encoding  *)
(* of a document: its syntax and, for JSON, its layout (white space).      *)
(***************************************************************************)
Absent == "<absent>"
OpenapiVals == {Absent, "", "3.0.0"}
SwaggerVals == {Absent, "", "2.0"}

Documents ==
  [root : {"object"}, openapi : OpenapiVals, swagger : SwaggerVals]
    \cup {[root |-> "null", openapi |-> Absent, swagger |-> Absent]}

NoDocument == [root |-> "none", openapi |-> Absent, swagger |-> Absent]

Texts ==
  [syntax : {"json"}, layout : {"compact", "indent2"}, doc : Documents]
    \cup [syntax : {"yaml"}, layout : {"block"}, doc : Documents]
    \cup {[syntax |-> "neither", layout |-> "none", doc |-> NoDocument]}

NoFile == [syntax |-> "nofile", layout |-> "none", doc |-> NoDocument]

\* JavaScript truthiness of a property read: undefined and "" are falsy
Truthy(v) == v # Absent /\ v # ""

\* JSON.parse(content): throws unless the text is JSON
JSON_parse(text) ==
  IF text.syntax = "json" THEN [threw |-> FALSE, value |-> text.doc]
  ELSE [threw |-> TRUE, value |-> NoDocument]

\* yaml.load(content): JSON text is YAML flow syntax, so both syntaxes load
yaml_load(text) ==
  IF text.syntax \in {"json", "yaml"} THEN [threw |-> FALSE, value |-> text.doc]
  ELSE [threw |-> TRUE, value |-> NoDocument]

\* JSON.stringify(value, null, 2)
JSON_stringify(value) == [syntax |-> "json", layout |-> "indent2", doc |-> value]

\* `parsed.openapi || parsed.swagger` inside the JSON try block: reading a
\* property of null throws a TypeError, which the same catch receives
JsonBranchValid(text) ==
  LET p == JSON_parse(text) IN
    /\ ~p.threw
    /\ p.value.root = "object"
    /\ (Truthy(p.value.openapi) \/ Truthy(p.value.swagger))

\* the YAML branch without its test of the version fields
YamlBranchValid_NoFieldTest(text) == ~yaml_load(text).threw

\* `yamlContent && (yamlContent.openapi || yamlContent.swagger)`
YamlBranchValid(text) ==
  LET y == yaml_load(text) IN
    /\ ~y.threw
    /\ y.value.root = "object"
    /\ (Truthy(y.value.openapi) \/ Truthy(y.value.swagger))

MsgNotJsonOrYaml == "Downloaded file is not a valid OpenAPI spec (not JSON or YAML)"

\* downloadOpenAPISpec without the write-back of the converted YAML
downloadOpenAPISpec_NoRewrite(content) ==
  IF JsonBranchValid(content) \/ YamlBranchValid(content)
  THEN [threw |-> FALSE, error |-> "", file |-> content]
  ELSE [threw |-> TRUE, error |-> MsgNotJsonOrYaml, file |-> content]

\* downloadOpenAPISpec after curl has written `content` to filepath:
\* the outcome (returns filepath or throws) and the file left at filepath
downloadOpenAPISpec(content) ==
  IF JsonBranchValid(content)
  THEN [threw |-> FALSE, error |-> "", file |-> content]
  ELSE IF YamlBranchValid(content)
  THEN [threw |-> FALSE, error |-> "",
        file |-> JSON_stringify(yaml_load(content).value)]
  ELSE [threw |-> TRUE, error |-> MsgNotJsonOrYaml, file |-> content]

(***************************************************************************)
(* The conversion pipeline (converter.js 24-57, 113-180)                   *)
(*                                                                         *)
(* What the outside world does to one call is an environment record:       *)
(*   curlOk     the curl command exits 0                                   *)
(*   content    the bytes the URL serves                                   *)
(*   convertOk  bin/openapi-to-bruno exits 0                               *)
(*   renderOk   bin/bruno-docs exits 0                                     *)
(***************************************************************************)
\* contents a download is tried on in the run: JSON with a version, YAML with
\* a version, JSON without any version field, bytes that are neither
SampleContents ==
  { [syntax |-> "json", layout |-> "compact",
     doc |-> [root |-> "object", openapi |-> "3.0.0", swagger |-> Absent]],
    [syntax |-> "yaml", layout |-> "block",
     doc |-> [root |-> "object", openapi |-> Absent, swagger |-> "2.0"]],
    [syntax |-> "json", layout |-> "indent2",
     doc |-> [root |-> "object", openapi |-> Absent, swagger |-> Absent]],
    [syntax |-> "neither", layout |-> "none", doc |-> NoDocument] }

\* the directories the stages create with fs.mkdir before they run their command
DataDirs == {"openapi", "collections", "docs"}

PipelineEnvs ==
  { e \in [curlOk : BOOLEAN, content : SampleContents, convertOk : BOOLEAN,
            renderOk : BOOLEAN,
            \* the directory whose fs.mkdir is refused, if any
            mkdirFail : {"none"} \cup DataDirs,
            \* whether bin/bruno-docs has left a docs directory
            docsWritten : BOOLEAN] :
      e.renderOk => e.docsWritten }

MsgCurl == "Command failed: curl"
MsgConvert == "Failed to convert to Bruno"
MsgMkdir == "EACCES: permission denied, mkdir"

openapiPathOf(id) == <<"data/openapi", id>>
collectionPathOf(id) == <<"data/collections", id>>
docsPathOf(id) == <<"data/docs", id>>

\* step 1 of convertAndGenerateDocs: mkdir, curl, then validation
DownloadStage(env) ==
  IF env.mkdirFail = "openapi" THEN [threw |-> TRUE, error |-> MsgMkdir]
  ELSE IF ~env.curlOk THEN [threw |-> TRUE, error |-> MsgCurl]
  ELSE LET d == downloadOpenAPISpec(env.content) IN
         [threw |-> d.threw, error |-> d.error]

\* convertToBruno: a failing command is rethrown
convertToBruno(env) ==
  IF env.mkdirFail = "collections" THEN [threw |-> TRUE, error |-> MsgMkdir]
  ELSE IF env.convertOk THEN [threw |-> FALSE, error |-> ""]
  ELSE [threw |-> TRUE, error |-> MsgConvert]

\* generateDocs with a catch that rethrows the failure of the command
generateDocs_Rethrow(env) ==
  IF env.mkdirFail = "docs" THEN [threw |-> TRUE, error |-> MsgMkdir]
  ELSE IF env.renderOk THEN [threw |-> FALSE, error |-> ""]
  ELSE [threw |-> TRUE, error |-> "Failed to generate docs"]

\* generateDocs: a failing command is caught and logged as a warning, and
\* docsPath is returned all the same; only the mkdir before it can throw
generateDocs(env) ==
  IF env.mkdirFail = "docs" THEN [threw |-> TRUE, error |-> MsgMkdir]
  ELSE [threw |-> FALSE, error |-> ""]

\* what the try block of convertAndGenerateDocs ends with: the first throwing
\* stage, or none
TryBlock(env) ==
  IF DownloadStage(env).threw THEN DownloadStage(env)
  ELSE IF convertToBruno(env).threw THEN convertToBruno(env)
  ELSE generateDocs(env)

\* convertAndGenerateDocs without its catch
convertAndGenerateDocs_NoCatch(id, env) ==
  LET t == TryBlock(env) IN
    IF t.threw
    THEN [threw |-> TRUE,
          value |-> [success |-> FALSE, error |-> t.error]]
    ELSE [threw |-> FALSE,
          value |-> [success |-> TRUE,
                     collection_path |-> collectionPathOf(id),
                     docs_path |-> docsPathOf(id),
                     openapi_path |-> openapiPathOf(id)]]

\* convertAndGenerateDocs(apiInfo): the catch turns any throw of the try
\* block into the success:false result
convertAndGenerateDocs(id, env) ==
  LET t == TryBlock(env) IN
    IF t.threw
    THEN [threw |-> FALSE,
          value |-> [success |-> FALSE, error |-> t.error]]
    ELSE [threw |-> FALSE,
          value |-> [success |-> TRUE,
                     collection_path |-> collectionPathOf(id),
                     docs_path |-> docsPathOf(id),
                     openapi_path |-> openapiPathOf(id)]]

\* the stages convertAndGenerateDocs has called, in call order: a stage is
\* called when the stage before it has returned
StagesRun(env) ==
  IF DownloadStage(env).threw THEN <<"download">>
  ELSE IF convertToBruno(env).threw THEN <<"download", "convert">>
  ELSE <<"download", "convert", "render">>

\* the stages among those called whose work failed; for render this is the
\* refused mkdir or the failing bin/bruno-docs command, thrown on or not
StagesFailed(env) ==
  {st \in {"download", "convert", "render"} :
     /\ \E i \in 1..Len(StagesRun(env)) : StagesRun(env)[i] = st
     /\ \/ st = "download" /\ DownloadStage(env).threw
        \/ st = "convert" /\ convertToBruno(env).threw
        \/ st = "render" /\ (env.mkdirFail = "docs" \/ ~env.renderOk)}

\* the message with which a failing stage throws
StageMessage(st, env) ==
  IF st = "download" THEN DownloadStage(env).error
  ELSE IF st = "convert" THEN convertToBruno(env).error
  ELSE IF env.mkdirFail = "docs" THEN MsgMkdir
  ELSE "Command failed: bruno-docs"

\* the files and directories one call leaves under data/: curl's output file
\* (validated or not), the collection directory, the docs directory
FilesWritten(id, env) ==
  (IF env.mkdirFail # "openapi" /\ env.curlOk THEN {openapiPathOf(id)} ELSE {})
    \cup (IF Len(StagesRun(env)) >= 2 /\ ~convertToBruno(env).threw
          THEN {collectionPathOf(id)} ELSE {})
    \cup (IF Len(StagesRun(env)) = 3 /\ env.mkdirFail # "docs" /\ env.docsWritten
          THEN {docsPathOf(id)} ELSE {})

\* the catch of convertAndGenerateDocs removing what the item's stages wrote
FilesAfter_Rollback(files, id, env) ==
  IF TryBlock(env).threw
  THEN files \ {openapiPathOf(id), collectionPathOf(id), docsPathOf(id)}
  ELSE files \cup FilesWritten(id, env)

\* data/ after one call of convertAndGenerateDocs: no stage and no catch
\* deletes a file
FilesAfter(files, id, env) == files \cup FilesWritten(id, env)

(***************************************************************************)
(* searchOpenAPIFiles (github-scraper.js 17-195)                           *)
(***************************************************************************)
\* bounds of the model
MaxHits == 2              \* hits on one page of search results
MaxResultsOpt == 2        \* largest options.maxResults tried

\* GitHub API limits to 1000 results per query (10 pages of 100)
maxPages == 10

\* options.filePatterns: the first two of the default list
filePatterns == << "openapi.json", "openapi.yaml" >>

\* owner/repo/path of the files the search API may return
RepoKeys == {"acme/api/openapi.json", "acme/api/v2/openapi.json"}

\* stargazers_count values repos.get may report: one below the default
\* minStars of POST /api/scrape and the default itself
StarSamples == {9, 10}

\* options.minStars values tried: the default of POST /api/scrape, and one
\* above the lower end of the open range
MinStarsSamples == {10, 1001}

\* searchResults.data.items of one page: 1..MaxHits hits, repeats allowed
RECURSIVE SeqsUpTo(_, _)
SeqsUpTo(S, n) ==
  IF n = 0 THEN {<<>>}
  ELSE LET shorter == SeqsUpTo(S, n - 1) IN
         shorter \cup {Append(s, x) : s \in {t \in shorter : Len(t) = n - 1}, x \in S}

HitLists == SeqsUpTo(RepoKeys, MaxHits) \ {<<>>}

NoSearch == [pattern |-> 0, range |-> 0, page |-> 0, outcome |-> "none",
             quotaMet |-> "none", attempts |-> 0, atCap |-> FALSE]

\* the record of a search call issued now with the given outcome
SearchRecord(outcome) ==
  [pattern |-> patternIdx, range |-> rangeIdx, page |-> page,
   outcome |-> outcome, quotaMet |-> quota,
   attempts |-> IF /\ lastSearch.pattern = patternIdx
                   /\ lastSearch.range = rangeIdx
                   /\ lastSearch.page = page
                THEN lastSearch.attempts + 1 ELSE 1,
   \* whether results.length >= maxResults when the call is issued
   atCap |-> Len(results) >= maxResults]

\* no iteration of the item loop yet, or a step outside the item loop
NoStep == [kind |-> "none", key |-> "none", calls |-> {}, seen |-> FALSE,
           atCap |-> FALSE]

\* the record of one iteration of the item loop on the hit Head(items): what
\* became of the hit, the enrichment calls issued for it, and whether its
\* key was in seenRepos and results.length >= maxResults when it was taken up
StepRecord(kind, calls) ==
  [kind |-> kind, key |-> Head(items), calls |-> calls,
   seen |-> Head(items) \in seenRepos,
   atCap |-> Len(results) >= maxResults]

\* hitCount after a page of hits
Occurrences(hits, k) == Cardinality({i \in 1..Len(hits) : hits[i] = k})

CountHits(count, hits) ==
  [k \in RepoKeys |->
     IF count[k] + Occurrences(hits, k) >= 2 THEN 2
     ELSE count[k] + Occurrences(hits, k)]

\* the cap test with `>` for `>=`
ReachedMaxResults_OffByOne == Len(results) > maxResults

\* `results.length >= maxResults`
ReachedMaxResults == Len(results) >= maxResults

\* the membership test left out
IsDuplicate_Never(repoKey) == FALSE

\* `seenRepos.has(repoKey)`
IsDuplicate(repoKey) == repoKey \in seenRepos

\* the star test letting through a repo one star short
BelowMinStars_OffByOne(stars) == stars < minStars - 1

\* `repo.data.stargazers_count < minStars`
BelowMinStars(stars) == stars < minStars

\* the item pushed for a hit
NewItem(repoKey, stars) == [id |-> Len(results) + 1, key |-> repoKey, stars |-> stars]

\* `continue` of the range loop: the next range, or the end of the loop
\* (line 184)
ToNextRange ==
  IF rangeIdx < Len(starRanges)
  THEN /\ rangeIdx' = rangeIdx + 1
       /\ scraperPc' = "range"
  ELSE /\ rangeIdx' = rangeIdx
       /\ scraperPc' = "afterRanges"

\* the next pattern, or the end of the pattern loop (line 190)
ToNextPattern ==
  IF patternIdx < Len(filePatterns)
  THEN /\ patternIdx' = patternIdx + 1
       /\ rangeIdx' = 1
       /\ scraperPc' = "range"
  ELSE /\ patternIdx' = patternIdx
       /\ rangeIdx' = rangeIdx
       /\ scraperPc' = "returned"

\* the end of one iteration of the page loop: page++ and the loop test
ToNextPage ==
  IF page + 1 <= maxPages
  THEN /\ page' = page + 1
       /\ scraperPc' = "page"
  ELSE /\ page' = page
       /\ scraperPc' = "afterPages"

Crawling == runPc = "discovering"

\* lines 45-48: a range below minStars is skipped
RangeSkipped ==
  /\ Crawling /\ scraperPc = "range"
  /\ SkipRange(starRanges[rangeIdx], minStars)
  /\ ToNextRange
  /\ UNCHANGED <<minStars, maxResults, patternIdx, page, items, results,
                 seenRepos, quota, lastSearch>>
  /\ UNCHANGED <<hitCount, sleptSinceSearch, runVars, sideVars>>
  /\ lastStep' = NoStep

\* lines 50-67: the query is built and its pagination starts
RangeQueried ==
  /\ Crawling /\ scraperPc = "range"
  /\ ~SkipRange(starRanges[rangeIdx], minStars)
  /\ page' = 1
  /\ scraperPc' = "page"
  /\ UNCHANGED <<minStars, maxResults, patternIdx, rangeIdx, items, results,
                 seenRepos, quota, lastSearch>>
  /\ UNCHANGED <<hitCount, sleptSinceSearch, runVars, sideVars>>
  /\ lastStep' = NoStep

\* lines 68-72: the cap is reached at the head of a page
PageCapBreak ==
  /\ Crawling /\ scraperPc = "page"
  /\ ReachedMaxResults
  /\ scraperPc' = "afterPages"
  /\ UNCHANGED <<minStars, maxResults, patternIdx, rangeIdx, page, items,
                 results, seenRepos, quota, lastSearch>>
  /\ UNCHANGED <<hitCount, sleptSinceSearch, runVars, sideVars>>
  /\ lastStep' = NoStep

\* what the API's quota is after a search call that met `quota`
QuotaAfterCall == IF quota = "exhausted" THEN {"exhausted"} ELSE {"available", "exhausted"}

\* the catch of the page loop retrying the page instead of `break`
SearchFails_Retry ==
  /\ runPc = "discovering" /\ scraperPc = "page"
  /\ Len(results) < maxResults
  /\ \E outcome \in IF quota = "exhausted" THEN {"quotaError"} ELSE {"error"} :
       lastSearch' = [pattern |-> patternIdx, range |-> rangeIdx, page |-> page,
                      outcome |-> outcome, quotaMet |-> quota,
                      attempts |-> IF /\ lastSearch.pattern = patternIdx
                                      /\ lastSearch.range = rangeIdx
                                      /\ lastSearch.page = page
                                   THEN lastSearch.attempts + 1 ELSE 1,
                      atCap |-> Len(results) >= maxResults]
  /\ lastStep' = NoStep
  /\ scraperPc' = IF lastSearch.attempts >= 2 THEN "afterPages" ELSE "page"
  /\ UNCHANGED <<minStars, maxResults, patternIdx, rangeIdx, page, items,
                 results, seenRepos, quota>>
  /\ sleptSinceSearch' = FALSE
  /\ UNCHANGED <<hitCount, runVars, sideVars>>

\* the failure of the search call leaving searchOpenAPIFiles: no catch in the
\* page loop
SearchFails_Abort ==
  /\ Crawling /\ scraperPc = "page"
  /\ ~ReachedMaxResults
  /\ \E outcome \in IF quota = "exhausted" THEN {"quotaError"} ELSE {"error"} :
       lastSearch' = SearchRecord(outcome)
  /\ scraperPc' = "returned"
  /\ lastStep' = NoStep
  /\ UNCHANGED <<minStars, maxResults, patternIdx, rangeIdx, page, items,
                 results, seenRepos, quota>>
  /\ sleptSinceSearch' = FALSE
  /\ UNCHANGED <<hitCount, runVars, sideVars>>

\* lines 74-81 and 167-170: the search call throws (HTTP 403 when the quota is
\* used up, any other failure otherwise); the catch ends the pagination
SearchFails ==
  /\ Crawling /\ scraperPc = "page"
  /\ ~ReachedMaxResults
  /\ \E outcome \in IF quota = "exhausted" THEN {"quotaError"} ELSE {"error"} :
       lastSearch' = SearchRecord(outcome)
  /\ scraperPc' = "afterPages"
  /\ UNCHANGED <<minStars, maxResults, patternIdx, rangeIdx, page, items,
                 results, seenRepos, quota>>
  /\ sleptSinceSearch' = FALSE
  /\ UNCHANGED <<hitCount, runVars, sideVars>>
  /\ lastStep' = NoStep

\* an empty page not ending the pagination: the next page is asked for
SearchEmpty_Continue ==
  /\ Crawling /\ scraperPc = "page"
  /\ ~ReachedMaxResults
  /\ quota = "available"
  /\ sleptSinceSearch' = FALSE
  /\ lastSearch' = SearchRecord("empty")
  /\ quota' \in QuotaAfterCall
  /\ ToNextPage
  /\ lastStep' = NoStep
  /\ UNCHANGED <<minStars, maxResults, patternIdx, rangeIdx, items,
                 results, seenRepos>>
  /\ UNCHANGED <<hitCount, runVars, sideVars>>

\* lines 85-89: an empty page ends the pagination
SearchEmpty ==
  /\ Crawling /\ scraperPc = "page"
  /\ ~ReachedMaxResults
  /\ quota = "available"
  /\ sleptSinceSearch' = FALSE
  /\ lastSearch' = SearchRecord("empty")
  /\ quota' \in QuotaAfterCall
  /\ scraperPc' = "afterPages"
  /\ UNCHANGED <<minStars, maxResults, patternIdx, rangeIdx, page, items,
                 results, seenRepos>>
  /\ UNCHANGED <<hitCount, runVars, sideVars>>
  /\ lastStep' = NoStep

\* lines 76-91: a page of hits
SearchHits ==
  /\ Crawling /\ scraperPc = "page"
  /\ ~ReachedMaxResults
  /\ quota = "available"
  /\ sleptSinceSearch' = FALSE
  /\ lastSearch' = SearchRecord("items")
  /\ quota' \in QuotaAfterCall
  /\ \E hits \in HitLists :
       /\ items' = hits
       /\ hitCount' = CountHits(hitCount, hits)
  /\ scraperPc' = "items"
  /\ UNCHANGED <<minStars, maxResults, patternIdx, rangeIdx, page, results,
                 seenRepos>>
  /\ UNCHANGED <<runVars, sideVars>>
  /\ lastStep' = NoStep

\* the reset time of the quota passes (environment)
QuotaReset ==
  /\ Crawling /\ scraperPc \notin {"idle", "returned"}
  /\ quota = "exhausted"
  /\ quota' = "available"
  /\ UNCHANGED <<minStars, maxResults, scraperPc, patternIdx, rangeIdx, page,
                 items, results, seenRepos, lastSearch>>
  /\ UNCHANGED <<hitCount, sleptSinceSearch, runVars, sideVars>>
  /\ UNCHANGED lastStep

\* the item loop ends: every hit of the page was iterated
ItemsDone ==
  /\ Crawling /\ scraperPc = "items"
  /\ items = <<>>
  /\ ToNextPage
  /\ UNCHANGED <<minStars, maxResults, patternIdx, rangeIdx, items, results,
                 seenRepos, quota, lastSearch>>
  /\ UNCHANGED <<hitCount, sleptSinceSearch, runVars, sideVars>>
  /\ lastStep' = NoStep

\* lines 92-96: the cap is reached inside a page; `break` leaves the item loop
ItemCapBreak ==
  /\ Crawling /\ scraperPc = "items"
  /\ items # <<>>
  /\ ReachedMaxResults
  /\ items' = <<>>
  /\ ToNextPage
  /\ UNCHANGED <<minStars, maxResults, patternIdx, rangeIdx, results,
                 seenRepos, quota, lastSearch>>
  /\ UNCHANGED <<hitCount, sleptSinceSearch, runVars, sideVars>>
  /\ lastStep' = StepRecord("capBreak", {})

\* the membership test made after the repo-info call
ItemDuplicate_AfterFetch ==
  /\ Crawling /\ scraperPc = "items"
  /\ items # <<>>
  /\ ~ReachedMaxResults
  /\ IsDuplicate(Head(items))
  /\ items' = Tail(items)
  /\ lastStep' = StepRecord("duplicate", {"repos.get"})
  /\ UNCHANGED <<minStars, maxResults, scraperPc, patternIdx, rangeIdx, page,
                 results, seenRepos, quota, lastSearch>>
  /\ UNCHANGED <<hitCount, sleptSinceSearch, runVars, sideVars>>

\* lines 98-105: a key already seen is skipped
ItemDuplicate ==
  /\ Crawling /\ scraperPc = "items"
  /\ items # <<>>
  /\ ~ReachedMaxResults
  /\ IsDuplicate(Head(items))
  /\ items' = Tail(items)
  /\ UNCHANGED <<minStars, maxResults, scraperPc, patternIdx, rangeIdx, page,
                 results, seenRepos, quota, lastSearch>>
  /\ UNCHANGED <<hitCount, sleptSinceSearch, runVars, sideVars>>
  /\ lastStep' = StepRecord("duplicate", {})

\* the key recorded as seen before the fetches, so that a failed hit is
\* never tried again
ItemFetchError_MarksSeen ==
  /\ Crawling /\ scraperPc = "items"
  /\ items # <<>>
  /\ ~ReachedMaxResults
  /\ ~IsDuplicate(Head(items))
  /\ lastStep' = StepRecord("fetchError", {"repos.get"})
  /\ seenRepos' = seenRepos \cup {Head(items)}
  /\ items' = Tail(items)
  /\ UNCHANGED <<minStars, maxResults, scraperPc, patternIdx, rangeIdx, page,
                 results, quota, lastSearch>>
  /\ UNCHANGED <<hitCount, sleptSinceSearch, runVars, sideVars>>

\* lines 107-112, 120-125, 163-165: repos.get or repos.getContent throws; the
\* per-item catch logs it
ItemFetchError ==
  /\ Crawling /\ scraperPc = "items"
  /\ items # <<>>
  /\ ~ReachedMaxResults
  /\ ~IsDuplicate(Head(items))
  /\ \/ lastStep' = StepRecord("fetchError", {"repos.get"})
     \/ /\ \E stars \in StarSamples : ~BelowMinStars(stars)
        /\ lastStep' = StepRecord("fetchError", {"repos.get", "repos.getContent"})
  /\ items' = Tail(items)
  /\ UNCHANGED <<minStars, maxResults, scraperPc, patternIdx, rangeIdx, page,
                 results, seenRepos, quota, lastSearch>>
  /\ UNCHANGED <<hitCount, sleptSinceSearch, runVars, sideVars>>

\* lines 114-118: the repo has fewer stars than minStars
ItemLowStars ==
  /\ Crawling /\ scraperPc = "items"
  /\ items # <<>>
  /\ ~ReachedMaxResults
  /\ ~IsDuplicate(Head(items))
  /\ \E stars \in StarSamples : BelowMinStars(stars)
  /\ items' = Tail(items)
  /\ UNCHANGED <<minStars, maxResults, scraperPc, patternIdx, rangeIdx, page,
                 results, seenRepos, quota, lastSearch>>
  /\ UNCHANGED <<hitCount, sleptSinceSearch, runVars, sideVars>>
  /\ lastStep' = StepRecord("lowStars", {"repos.get"})

\* the accepted item put at the front of results (unshift) instead of pushed
ItemAccepted_Prepend ==
  /\ Crawling /\ scraperPc = "items"
  /\ items # <<>>
  /\ ~ReachedMaxResults
  /\ ~IsDuplicate(Head(items))
  /\ \E stars \in StarSamples :
       /\ ~BelowMinStars(stars)
       /\ results' = <<NewItem(Head(items), stars)>> \o results
  /\ seenRepos' = seenRepos \cup {Head(items)}
  /\ sleptSinceSearch' = TRUE
  /\ items' = Tail(items)
  /\ UNCHANGED <<minStars, maxResults, scraperPc, patternIdx, rangeIdx, page,
                 quota, lastSearch>>
  /\ UNCHANGED <<hitCount, runVars, sideVars>>
  /\ lastStep' = StepRecord("accepted", {"repos.get", "repos.getContent"})

\* lines 120-162: the file is fetched, the key recorded and the item pushed
ItemAccepted ==
  /\ Crawling /\ scraperPc = "items"
  /\ items # <<>>
  /\ ~ReachedMaxResults
  /\ ~IsDuplicate(Head(items))
  /\ \E stars \in StarSamples :
       /\ ~BelowMinStars(stars)
       /\ results' = Append(results, NewItem(Head(items), stars))
  /\ seenRepos' = seenRepos \cup {Head(items)}
  /\ sleptSinceSearch' = TRUE
  /\ items' = Tail(items)
  /\ UNCHANGED <<minStars, maxResults, scraperPc, patternIdx, rangeIdx, page,
                 quota, lastSearch>>
  /\ UNCHANGED <<hitCount, runVars, sideVars>>
  /\ lastStep' = StepRecord("accepted", {"repos.get", "repos.getContent"})

\* lines 173-177: after the pagination of one query
AfterPages ==
  /\ Crawling /\ scraperPc = "afterPages"
  /\ IF ReachedMaxResults
     THEN /\ scraperPc' = "afterRanges"
          /\ rangeIdx' = rangeIdx
     ELSE ToNextRange
  /\ UNCHANGED <<minStars, maxResults, patternIdx, page, items, results,
                 seenRepos, quota, lastSearch>>
  /\ UNCHANGED <<hitCount, sleptSinceSearch, runVars, sideVars>>
  /\ lastStep' = NoStep

\* lines 184-188: after the ranges of one pattern
AfterRanges ==
  /\ Crawling /\ scraperPc = "afterRanges"
  /\ IF ReachedMaxResults
     THEN /\ scraperPc' = "returned"
          /\ patternIdx' = patternIdx
          /\ rangeIdx' = rangeIdx
     ELSE ToNextPattern
  /\ UNCHANGED <<minStars, maxResults, page, items, results, seenRepos,
                 quota, lastSearch>>
  /\ UNCHANGED <<hitCount, sleptSinceSearch, runVars, sideVars>>
  /\ lastStep' = NoStep

CrawlStep ==
  \/ RangeSkipped \/ RangeQueried
  \/ PageCapBreak \/ SearchFails \/ SearchEmpty \/ SearchHits
  \/ ItemsDone \/ ItemCapBreak \/ ItemDuplicate \/ ItemFetchError
  \/ ItemLowStars \/ ItemAccepted
  \/ AfterPages \/ AfterRanges

(***************************************************************************)
(* POST /api/scrape and runScrape (part_003 198-221, 270-373), with the    *)
(* scrape_runs row they write (schema.js 174-190)                          *)
(***************************************************************************)
NoRow == [status |-> "norow", apis_found |-> 0, apis_processed |-> 0,
          completed_at |-> Null]

\* createScrapeRun: INSERT ... VALUES (?, CURRENT_TIMESTAMP, 'running'); the
\* counters take their column defaults
createScrapeRun ==
  [status |-> "running", apis_found |-> 0, apis_processed |-> 0,
   completed_at |-> Null]

\* the row after updateScrapeRun(runId, { apis_found })
SetApisFound(row, n) == [row EXCEPT !.apis_found = n]

\* the final update without completed_at
SetCompleted_NoTimestamp(row, n) ==
  [row EXCEPT !.apis_processed = n, !.status = "completed"]

\* the row after updateScrapeRun(runId, { completed_at, apis_processed, status: 'completed' })
SetCompleted(row, n) ==
  [row EXCEPT !.completed_at = "now", !.apis_processed = n, !.status = "completed"]

\* the catch of runScrape setting completed_at only
SetFailed_NoStatus(row) == [row EXCEPT !.completed_at = "now"]

\* the row after updateScrapeRun(runId, { completed_at, status: 'failed' })
SetFailed(row) == [row EXCEPT !.completed_at = "now", !.status = "failed"]

\* the token test made after createScrapeRun
ScrapeRejected_AfterCreate ==
  /\ runPc = "idle"
  /\ ~githubToken
  /\ scrape_runs' = createScrapeRun
  /\ runWrites' = Append(runWrites, "createScrapeRun")
  /\ runPc' = "rejected"
  /\ UNCHANGED <<githubToken, apiIdx, processed, pipelineLog>>
  /\ UNCHANGED crawlVars
  /\ UNCHANGED sideVars

\* lines 199-201: no token, 400 and nothing else
ScrapeRejected ==
  /\ runPc = "idle"
  /\ ~githubToken
  /\ runPc' = "rejected"
  /\ UNCHANGED <<githubToken, scrape_runs, apiIdx, processed, pipelineLog,
                 runWrites>>
  /\ UNCHANGED crawlVars
  /\ UNCHANGED sideVars

\* lines 203-217 and 270-280: the run row is created, runScrape starts and
\* calls searchOpenAPIFiles(options)
ScrapeStarted ==
  /\ runPc = "idle"
  /\ githubToken
  /\ minStars' \in MinStarsSamples
  /\ maxResults' \in 0..MaxResultsOpt
  /\ scrape_runs' = createScrapeRun
  /\ runPc' = "discovering"
  /\ scraperPc' = IF Len(filePatterns) = 0 THEN "returned" ELSE "range"
  /\ patternIdx' = 1 /\ rangeIdx' = 1 /\ page' = 1
  /\ items' = <<>> /\ results' = <<>> /\ seenRepos' = {}
  /\ runWrites' = Append(runWrites, "createScrapeRun")
  /\ UNCHANGED <<quota, lastSearch, hitCount, lastStep, sleptSinceSearch>>
  /\ UNCHANGED <<githubToken, apiIdx, processed, pipelineLog>>
  /\ UNCHANGED sideVars

\* lines 272-280 throw before the crawl has made a call; the outer catch
\* (366-372) marks the run failed
DiscoveryThrows ==
  /\ runPc = "discovering"
  /\ scraperPc = "range"
  /\ patternIdx = 1 /\ rangeIdx = 1
  /\ scrape_runs' = SetFailed(scrape_runs)
  /\ runWrites' = Append(runWrites, "failed")
  /\ runPc' = "returned"
  /\ UNCHANGED <<githubToken, apiIdx, processed, pipelineLog>>
  /\ UNCHANGED crawlVars
  /\ UNCHANGED sideVars

\* lines 280-286: searchOpenAPIFiles has returned apis
DiscoveryReturns ==
  /\ runPc = "discovering"
  /\ scraperPc = "returned"
  /\ scrape_runs' = SetApisFound(scrape_runs, Len(results))
  /\ runWrites' = Append(runWrites, "apis_found")
  /\ processed' = 0
  /\ apiIdx' = 1
  /\ runPc' = "processing"
  /\ UNCHANGED <<githubToken, pipelineLog>>
  /\ UNCHANGED crawlVars
  /\ UNCHANGED sideVars

\* `processed++` moved out of `if (result.success)`
ProcessedIncrement_Always(call, dbOk) == 1

\* what one iteration of the loop over apis adds to `processed`: the pipeline
\* result must be success and createApi, the classification and the tag
\* writes must not throw (dbOk)
ProcessedIncrement(call, dbOk) ==
  IF ~call.threw /\ call.value.success /\ dbOk THEN 1 ELSE 0

\* the loop over apis consuming the items while the crawl still runs
ProcessApi_Streaming ==
  /\ runPc \in {"discovering", "processing"}
  /\ apiIdx <= Len(results)
  /\ \E call \in {convertAndGenerateDocs(results[apiIdx].id, env) : env \in PipelineEnvs},
        dbOk \in BOOLEAN :
         /\ processed' = processed + ProcessedIncrement(call, dbOk)
         /\ pipelineLog' = Append(pipelineLog,
              [id |-> results[apiIdx].id,
               threw |-> call.threw,
               success |-> (~call.threw /\ call.value.success),
               saved |-> (~call.threw /\ call.value.success /\ dbOk)])
  /\ apiIdx' = apiIdx + 1
  /\ UNCHANGED <<githubToken, runPc, scrape_runs, runWrites>>
  /\ UNCHANGED crawlVars
  /\ UNCHANGED sideVars

\* lines 287-355: one api of the loop
ProcessApi ==
  /\ runPc = "processing"
  /\ apiIdx <= Len(results)
  /\ \E call \in {convertAndGenerateDocs(results[apiIdx].id, env) : env \in PipelineEnvs},
        dbOk \in BOOLEAN :
         /\ processed' = processed + ProcessedIncrement(call, dbOk)
         /\ pipelineLog' = Append(pipelineLog,
              [id |-> results[apiIdx].id,
               threw |-> call.threw,
               success |-> (~call.threw /\ call.value.success),
               saved |-> (~call.threw /\ call.value.success /\ dbOk)])
  /\ apiIdx' = apiIdx + 1
  /\ UNCHANGED <<githubToken, runPc, scrape_runs, runWrites>>
  /\ UNCHANGED crawlVars
  /\ UNCHANGED sideVars

\* lines 357-365: the loop is over
RunCompleted ==
  /\ runPc = "processing"
  /\ apiIdx > Len(results)
  /\ scrape_runs' = SetCompleted(scrape_runs, processed)
  /\ runWrites' = Append(runWrites, "completed")
  /\ runPc' = "returned"
  /\ UNCHANGED <<githubToken, apiIdx, processed, pipelineLog>>
  /\ UNCHANGED crawlVars
  /\ UNCHANGED sideVars

RunStep ==
  \/ ScrapeRejected \/ ScrapeStarted \/ DiscoveryThrows \/ DiscoveryReturns
  \/ ProcessApi \/ RunCompleted

\* the run ids the server hands out (uuidv4 values)
RunIds == {"run-a", "run-b"}

InitIdleRuns ==
  /\ runState = [r \in RunIds |-> "untriggered"]
  /\ runApis = [r \in RunIds |-> <<>>]
  /\ runIdx = [r \in RunIds |-> 1]
  /\ runProcessed = [r \in RunIds |-> 0]
  /\ runsTable = [r \in RunIds |-> NoRow]
  /\ catalog = {}
  /\ runOutcomes = [r \in RunIds |-> <<>>]
  /\ rowWrites = {}

InitIdleImport ==
  /\ importPc = "idle" /\ importsStarted = 0
  /\ skipExisting = TRUE /\ maxApis = 0
  /\ apisToImport = <<>> /\ importIdx = 1
  /\ stats = [total |-> 0, downloaded |-> 0, processed |-> 0, skipped |-> 0,
              failed |-> 0, errors |-> <<>>]
  /\ apisRows = {}
  /\ importTrace = <<>>
  /\ everUnchecked = FALSE

InitIdleMore == InitIdleRuns /\ InitIdleImport

InitIdleSave ==
  /\ saveApis = <<>> /\ saveIdx = 1 /\ saveProcessed = 0
  /\ apisTable = {} /\ tagsTable = {} /\ apiTagsTable = {}

InitIdleSide ==
  /\ InitIdleSave
  /\ InitIdleMore
  /\ gateMin = 0 /\ gateIdx = 1 /\ gateQueried = {}
  /\ dlContent = <<>> /\ dlFile = <<>> /\ dlPc = <<>>
  /\ batchList = <<>> /\ batchResults = <<>> /\ batchPc = "idle"
  /\ batchFiles = {} /\ batchTrace = <<>>

Init ==
  /\ githubToken \in BOOLEAN
  /\ runPc = "idle"
  /\ scrape_runs = NoRow
  /\ apiIdx = 1 /\ processed = 0 /\ pipelineLog = <<>> /\ runWrites = <<>>
  /\ minStars = 0 /\ maxResults = 0
  /\ scraperPc = "idle"
  /\ patternIdx = 1 /\ rangeIdx = 1 /\ page = 1
  /\ items = <<>> /\ results = <<>> /\ seenRepos = {}
  /\ quota \in {"available", "exhausted"}
  /\ lastSearch = NoSearch /\ lastStep = NoStep /\ sleptSinceSearch = FALSE
  /\ hitCount = [k \in RepoKeys |-> 0]
  /\ InitIdleSide

Next == RunStep \/ CrawlStep \/ QuotaReset

Spec == Init /\ [][Next]_vars

\* the steps of runScrape are steps of one async function: each awaited call
\* returns or fails, and the function goes on
FairSpec == Spec /\ WF_vars(RunStep \/ CrawlStep)

InitIdleMain ==
  /\ githubToken = FALSE
  /\ runPc = "idle"
  /\ scrape_runs = NoRow
  /\ apiIdx = 1 /\ processed = 0 /\ pipelineLog = <<>> /\ runWrites = <<>>
  /\ minStars = 0 /\ maxResults = 0
  /\ scraperPc = "idle"
  /\ patternIdx = 1 /\ rangeIdx = 1 /\ page = 1
  /\ items = <<>> /\ results = <<>> /\ seenRepos = {}
  /\ quota = "available"
  /\ lastSearch = NoSearch /\ lastStep = NoStep /\ sleptSinceSearch = FALSE
  /\ hitCount = [k \in RepoKeys |-> 0]

(***************************************************************************)
(* The head of the range loop on its own (github-scraper.js 45-48): which  *)
(* ranges are queried for a given minStars                                 *)
(***************************************************************************)
MaxThreshold == 1002      \* largest minStars tried

\* `continue`: the range is skipped
GateSkipped ==
  /\ gateIdx <= Len(starRanges)
  /\ SkipRange(starRanges[gateIdx], gateMin)
  /\ gateIdx' = gateIdx + 1
  /\ UNCHANGED <<gateMin, gateQueried>>
  /\ UNCHANGED <<crawlVars, runVars, dlVars, batchVars, saveVars, moreVars>>

\* the loop body runs: the query of the range is built and searched
GateQueried ==
  /\ gateIdx <= Len(starRanges)
  /\ ~SkipRange(starRanges[gateIdx], gateMin)
  /\ gateQueried' = gateQueried \cup {gateIdx}
  /\ gateIdx' = gateIdx + 1
  /\ UNCHANGED gateMin
  /\ UNCHANGED <<crawlVars, runVars, dlVars, batchVars, saveVars, moreVars>>

InitRanges ==
  /\ gateMin \in 0..MaxThreshold
  /\ gateIdx = 1
  /\ gateQueried = {}
  /\ dlContent = <<>> /\ dlFile = <<>> /\ dlPc = <<>>
  /\ batchList = <<>> /\ batchResults = <<>> /\ batchPc = "idle"
  /\ batchFiles = {} /\ batchTrace = <<>>
  /\ InitIdleSave
  /\ InitIdleMain
  /\ InitIdleMore

NextRanges == GateSkipped \/ GateQueried

SpecRanges == InitRanges /\ [][NextRanges]_vars

(***************************************************************************)
(* downloadOpenAPISpec on its own (converter.js 62-108): two downloads,    *)
(* each of any text                                                        *)
(***************************************************************************)
DownloadIds == {1, 2}

\* line 70: curl fails and execAsync rejects; nothing is validated
CurlFails(i) ==
  /\ dlPc[i] = "start"
  /\ dlPc' = [dlPc EXCEPT ![i] = "curlFailed"]
  /\ UNCHANGED <<dlContent, dlFile>>
  /\ UNCHANGED <<crawlVars, runVars, gateVars, batchVars, saveVars, moreVars>>

\* lines 70-107: curl writes the file, validation accepts it
DownloadAccepted(i) ==
  /\ dlPc[i] = "start"
  /\ ~downloadOpenAPISpec(dlContent[i]).threw
  /\ dlFile' = [dlFile EXCEPT ![i] = downloadOpenAPISpec(dlContent[i]).file]
  /\ dlPc' = [dlPc EXCEPT ![i] = "accepted"]
  /\ UNCHANGED dlContent
  /\ UNCHANGED <<crawlVars, runVars, gateVars, batchVars, saveVars, moreVars>>

\* lines 70-105: curl writes the file, validation throws
DownloadRejected(i) ==
  /\ dlPc[i] = "start"
  /\ downloadOpenAPISpec(dlContent[i]).threw
  /\ dlFile' = [dlFile EXCEPT ![i] = downloadOpenAPISpec(dlContent[i]).file]
  /\ dlPc' = [dlPc EXCEPT ![i] = "rejected"]
  /\ UNCHANGED dlContent
  /\ UNCHANGED <<crawlVars, runVars, gateVars, batchVars, saveVars, moreVars>>

InitNormalizer ==
  /\ dlContent \in [DownloadIds -> Texts]
  /\ dlFile = [i \in DownloadIds |-> NoFile]
  /\ dlPc = [i \in DownloadIds |-> "start"]
  /\ gateMin = 0 /\ gateIdx = 1 /\ gateQueried = {}
  /\ batchList = <<>> /\ batchResults = <<>> /\ batchPc = "idle"
  /\ batchFiles = {} /\ batchTrace = <<>>
  /\ InitIdleSave
  /\ InitIdleMain
  /\ InitIdleMore

NextNormalizer ==
  \E i \in DownloadIds : CurlFails(i) \/ DownloadAccepted(i) \/ DownloadRejected(i)

SpecNormalizer == InitNormalizer /\ [][NextNormalizer]_vars

(***************************************************************************)
(* processBatch (converter.js 165-180)                                     *)
(***************************************************************************)
MaxBatch == 3             \* longest apiList tried

\* one iteration: the result of the api is pushed; a throw of
\* convertAndGenerateDocs would leave processBatch
BatchStep ==
  /\ batchPc = "looping"
  /\ Len(batchResults) < Len(batchList)
  /\ \E env \in PipelineEnvs :
       LET api == batchList[Len(batchResults) + 1]
           call == convertAndGenerateDocs(api, env)
       IN /\ IF call.threw
             THEN /\ batchPc' = "threw"
                  /\ batchResults' = batchResults
             ELSE /\ batchPc' = batchPc
                  /\ batchResults' = Append(batchResults, [api |-> api, result |-> call.value])
          /\ batchFiles' = FilesAfter(batchFiles, api, env)
          /\ batchTrace' = Append(batchTrace,
               [api |-> api,
                stages |-> StagesRun(env),
                failed |-> StagesFailed(env),
                messages |-> [st \in StagesFailed(env) |-> StageMessage(st, env)]])
  /\ UNCHANGED batchList
  /\ UNCHANGED <<crawlVars, runVars, gateVars, dlVars, saveVars, moreVars>>

\* `return results`
BatchReturns ==
  /\ batchPc = "looping"
  /\ Len(batchResults) = Len(batchList)
  /\ batchPc' = "returned"
  /\ UNCHANGED <<batchList, batchResults, batchFiles, batchTrace>>
  /\ UNCHANGED <<crawlVars, runVars, gateVars, dlVars, saveVars, moreVars>>

InitBatch ==
  /\ batchList \in {[i \in 1..n |-> i] : n \in 0..MaxBatch}
  /\ batchResults = <<>>
  /\ batchPc = "looping"
  /\ batchFiles = {} /\ batchTrace = <<>>
  /\ gateMin = 0 /\ gateIdx = 1 /\ gateQueried = {}
  /\ dlContent = <<>> /\ dlFile = <<>> /\ dlPc = <<>>
  /\ InitIdleSave
  /\ InitIdleMain
  /\ InitIdleMore

NextBatch == BatchStep \/ BatchReturns

SpecBatch == InitBatch /\ [][NextBatch]_vars

(***************************************************************************)
(* The save step of runScrape (part_003 292-351) for the apis whose         *)
(* pipeline result was success: createApi, classification, tag writes,     *)
(* processed++                                                             *)
(*                                                                         *)
(* api.name is `spec.info?.title || repo.data.name` and api.description is *)
(* `spec.info?.description || repo.data.description || ''`, where spec is  *)
(* the JSON the repository holds: a string, or whatever truthy value the   *)
(* file gives info.title (a number, an object).  A string is a sequence of *)
(* characters.                                                             *)
(***************************************************************************)
MaxSaved == 2             \* longest list of apis saved in one run

Str(chars) == [type |-> "string", chars |-> chars]
Num == [type |-> "number", chars |-> <<>>]
Obj == [type |-> "object", chars |-> <<>>]

\* api.name values: "Mail", "API", "Auth API", "Pets", 2024, {}
NameSamples ==
  { Str(<<"M", "a", "i", "l">>),
    Str(<<"A", "P", "I">>),
    Str(<<"A", "u", "t", "h", " ", "A", "P", "I">>),
    Str(<<"P", "e", "t", "s">>),
    Num, Obj }

\* api.description values: "", "SDK", "ml", 7
DescriptionSamples ==
  { Str(<<>>), Str(<<"S", "D", "K">>), Str(<<"m", "l">>), Num }

ApiSamples == [name : NameSamples, description : DescriptionSamples]

\* String.prototype.toLowerCase on one character
LowerChar(c) ==
  LET lower == ("A" :> "a") @@ ("D" :> "d") @@ ("I" :> "i") @@ ("K" :> "k")
                 @@ ("M" :> "m") @@ ("P" :> "p") @@ ("S" :> "s")
  IN IF c \in DOMAIN lower THEN lower[c] ELSE c

\* `(v || '').toLowerCase()`: the empty string is falsy and replaced by '',
\* a number or an object is truthy and has no toLowerCase: TypeError
toLowerCase(v) ==
  IF v.type = "string"
  THEN [threw |-> FALSE, chars |-> [i \in 1..Len(v.chars) |-> LowerChar(v.chars[i])]]
  ELSE [threw |-> TRUE, chars |-> <<>>]

\* `${name} ${desc}`
Combined(name, desc) == name \o <<" ">> \o desc

\* combined.includes(keyword)
includes(text, keyword) ==
  \E i \in 0..(Len(text) - Len(keyword)) :
    SubSeq(text, i + 1, i + Len(keyword)) = keyword

\* three of the entries of `categories`, in the order of the table
categories ==
  << [category |-> "Authentication",
      keywords |-> {<<"a", "u", "t", "h">>, <<"s", "s", "o">>}],
     [category |-> "AI & ML",
      keywords |-> {<<"a", "i">>, <<"m", "l">>}],
     [category |-> "Developer Tools",
      keywords |-> {<<"a", "p", "i">>, <<"s", "d", "k">>}] >>

\* tagsToAdd after the loop over the categories and the fallback
tagsToAdd(combined) ==
  LET matched == {categories[i].category :
                    i \in {j \in 1..Len(categories) :
                             \E kw \in categories[j].keywords : includes(combined, kw)}}
  IN IF matched = {} THEN {"General"} ELSE matched

\* stmt.run of createApi binds name and description: strings and numbers
\* bind, an object does not (TypeError)
createApiThrows(api) ==
  api.name.type = "object" \/ api.description.type = "object"

\* the classification throws: name or description is not a string
classifyThrows(api) ==
  toLowerCase(api.name).threw \/ toLowerCase(api.description).threw

\* lines 294-298 throw: no row, and the catch of the iteration logs it
SaveCreateThrows ==
  /\ saveIdx <= Len(saveApis)
  /\ createApiThrows(saveApis[saveIdx])
  /\ saveIdx' = saveIdx + 1
  /\ UNCHANGED <<saveApis, apisTable, tagsTable, apiTagsTable, saveProcessed>>
  /\ UNCHANGED <<crawlVars, runVars, gateVars, dlVars, batchVars, moreVars>>

\* lines 294-304: the row is inserted, then toLowerCase throws; the catch of
\* the iteration logs it
SaveClassifyThrows ==
  /\ saveIdx <= Len(saveApis)
  /\ ~createApiThrows(saveApis[saveIdx])
  /\ classifyThrows(saveApis[saveIdx])
  /\ apisTable' = apisTable \cup {saveIdx}
  /\ saveIdx' = saveIdx + 1
  /\ UNCHANGED <<saveApis, tagsTable, apiTagsTable, saveProcessed>>
  /\ UNCHANGED <<crawlVars, runVars, gateVars, dlVars, batchVars, moreVars>>

\* lines 294-350: the row is inserted, each tag is created if new (INSERT OR
\* IGNORE) and attached, and the api is counted
SaveDone ==
  /\ saveIdx <= Len(saveApis)
  /\ ~createApiThrows(saveApis[saveIdx])
  /\ ~classifyThrows(saveApis[saveIdx])
  /\ LET api == saveApis[saveIdx]
         tags == tagsToAdd(Combined(toLowerCase(api.name).chars,
                                    toLowerCase(api.description).chars))
     IN /\ apisTable' = apisTable \cup {saveIdx}
        /\ tagsTable' = tagsTable \cup tags
        /\ apiTagsTable' = apiTagsTable \cup {<<saveIdx, t>> : t \in tags}
  /\ saveProcessed' = saveProcessed + 1
  /\ saveIdx' = saveIdx + 1
  /\ UNCHANGED saveApis
  /\ UNCHANGED <<crawlVars, runVars, gateVars, dlVars, batchVars, moreVars>>

InitSave ==
  /\ saveApis \in SeqsUpTo(ApiSamples, MaxSaved) \ {<<>>}
  /\ saveIdx = 1 /\ saveProcessed = 0
  /\ apisTable = {} /\ tagsTable = {} /\ apiTagsTable = {}
  /\ gateMin = 0 /\ gateIdx = 1 /\ gateQueried = {}
  /\ dlContent = <<>> /\ dlFile = <<>> /\ dlPc = <<>>
  /\ batchList = <<>> /\ batchResults = <<>> /\ batchPc = "idle"
  /\ batchFiles = {} /\ batchTrace = <<>>
  /\ InitIdleMain
  /\ InitIdleMore

NextSave == SaveCreateThrows \/ SaveClassifyThrows \/ SaveDone

SpecSave == InitSave /\ [][NextSave]_vars

(***************************************************************************)
(* Several scrape runs of one server (part_003 198-221 and 270-373): each  *)
(* POST /api/scrape creates a row of scrape_runs and starts runScrape in   *)
(* the background without awaiting it, so the steps of two runs            *)
(* interleave at their awaits.  Every run has its own scraper (line 275),  *)
(* hence its own seenRepos (github-scraper.js 33), and its own local       *)
(* `processed`; the tables scrape_runs and apis are shared.                *)
(***************************************************************************)

\* what searchOpenAPIFiles can return: seenRepos (github-scraper.js 33, 93-97)
\* lets a key into the results of one call at most once
FoundLists ==
  {s \in SeqsUpTo(RepoKeys, Cardinality(RepoKeys)) :
     \A i, j \in 1..Len(s) : s[i] = s[j] => i = j}

\* how the save step of one iteration can end (part_003 292-351): createApi
\* throws, the classification or a tag write throws after it, or all is done
SaveEnds == {"createApiThrows", "tagsThrow", "saved"}

\* how one iteration of the loop over apis ends (part_003 288-354): the save
\* step is entered only with a result whose success is true (line 292)
IterationEnd(call, save) ==
  IF call.threw \/ ~call.value.success THEN "pipelineFailed" ELSE save

\* createApi reached whatever the pipeline result says
InsertsRecord_IgnoringResult(call, save) == save # "createApiThrows"

\* part_003 292-298: the iteration inserts a row of table apis
InsertsRecord(call, save) ==
  IterationEnd(call, save) \in {"tagsThrow", "saved"}

\* part_003 294-298: the row createApi inserts; a result without the paths
\* gives undefined, which is stored as NULL
ApiRecord(id, key, call) ==
  [id |-> id, key |-> key,
   collection_path |-> IF ~call.threw /\ call.value.success
                       THEN call.value.collection_path ELSE Null,
   docs_path |-> IF ~call.threw /\ call.value.success
                 THEN call.value.docs_path ELSE Null]

\* UPDATE scrape_runs SET ... with no WHERE clause
updateScrapeRun_NoWhere(table, id, updates) ==
  [i \in DOMAIN table |->
     IF table[i] # NoRow
     THEN [f \in DOMAIN table[i] |->
             IF f \in DOMAIN updates THEN updates[f] ELSE table[i][f]]
     ELSE table[i]]

\* schema.js 182-190: UPDATE scrape_runs SET <fields> WHERE id = ?
updateScrapeRun(table, id, updates) ==
  [i \in DOMAIN table |->
     IF i = id /\ table[i] # NoRow
     THEN [f \in DOMAIN table[i] |->
             IF f \in DOMAIN updates THEN updates[f] ELSE table[i][f]]
     ELSE table[i]]

\* the rows of scrape_runs that differ between two states of the table
RowsChanged(before, after) == {i \in DOMAIN before : after[i] # before[i]}

\* part_003 198-221: POST /api/scrape with the token configured
RunTriggered(r) ==
  /\ runState[r] = "untriggered"
  /\ githubToken
  /\ runsTable' = [runsTable EXCEPT ![r] = createScrapeRun]
  /\ rowWrites' = rowWrites \cup {<<r, i>> : i \in RowsChanged(runsTable, runsTable')}
  /\ runState' = [runState EXCEPT ![r] = "discovering"]
  /\ UNCHANGED <<runApis, runIdx, runProcessed, catalog, runOutcomes>>

\* part_003 280-286: the crawl of run r has returned apis
RunFound(r) ==
  /\ runState[r] = "discovering"
  /\ \E found \in FoundLists :
       /\ runApis' = [runApis EXCEPT ![r] = found]
       /\ runsTable' = updateScrapeRun(runsTable, r, [apis_found |-> Len(found)])
  /\ rowWrites' = rowWrites \cup {<<r, i>> : i \in RowsChanged(runsTable, runsTable')}
  /\ runProcessed' = [runProcessed EXCEPT ![r] = 0]
  /\ runIdx' = [runIdx EXCEPT ![r] = 1]
  /\ runState' = [runState EXCEPT ![r] = "processing"]
  /\ UNCHANGED <<catalog, runOutcomes>>

\* part_003 366-372: the crawl of run r threw
RunFailed(r) ==
  /\ runState[r] = "discovering"
  /\ runsTable' = updateScrapeRun(runsTable, r,
                    [completed_at |-> "now", status |-> "failed"])
  /\ rowWrites' = rowWrites \cup {<<r, i>> : i \in RowsChanged(runsTable, runsTable')}
  /\ runState' = [runState EXCEPT ![r] = "failed"]
  /\ UNCHANGED <<runApis, runIdx, runProcessed, catalog, runOutcomes>>

\* part_003 287-355: one api of the loop of run r.  createApi (294-298) is
\* reached when the pipeline result is success; it is a plain INSERT
\* (schema.js 76-92) of the item under its own fresh id, and nothing reads
\* table apis before it
RunProcessApi(r) ==
  /\ runState[r] = "processing"
  /\ runIdx[r] <= Len(runApis[r])
  /\ \E call \in {convertAndGenerateDocs(<<r, runIdx[r]>>, env) : env \in PipelineEnvs},
        save \in SaveEnds :
       /\ catalog' = IF InsertsRecord(call, save)
                     THEN catalog \cup {ApiRecord(<<r, runIdx[r]>>,
                                                  runApis[r][runIdx[r]], call)}
                     ELSE catalog
       /\ runProcessed' = [runProcessed EXCEPT
                             ![r] = @ + (IF IterationEnd(call, save) = "saved"
                                         THEN 1 ELSE 0)]
       /\ runOutcomes' = [runOutcomes EXCEPT
                            ![r] = Append(@, IterationEnd(call, save))]
  /\ runIdx' = [runIdx EXCEPT ![r] = @ + 1]
  /\ UNCHANGED <<runState, runApis, runsTable, rowWrites>>

\* part_003 357-365: the loop of run r is over
RunCompletes(r) ==
  /\ runState[r] = "processing"
  /\ runIdx[r] > Len(runApis[r])
  /\ runsTable' = updateScrapeRun(runsTable, r,
                    [completed_at |-> "now",
                     apis_processed |-> runProcessed[r],
                     status |-> "completed"])
  /\ rowWrites' = rowWrites \cup {<<r, i>> : i \in RowsChanged(runsTable, runsTable')}
  /\ runState' = [runState EXCEPT ![r] = "completed"]
  /\ UNCHANGED <<runApis, runIdx, runProcessed, catalog, runOutcomes>>

InitRuns ==
  /\ InitIdleRuns
  /\ InitIdleSave
  /\ gateMin = 0 /\ gateIdx = 1 /\ gateQueried = {}
  /\ dlContent = <<>> /\ dlFile = <<>> /\ dlPc = <<>>
  /\ batchList = <<>> /\ batchResults = <<>> /\ batchPc = "idle"
  /\ batchFiles = {} /\ batchTrace = <<>>
  /\ githubToken = TRUE
  /\ runPc = "idle"
  /\ scrape_runs = NoRow
  /\ apiIdx = 1 /\ processed = 0 /\ pipelineLog = <<>> /\ runWrites = <<>>
  /\ minStars = 0 /\ maxResults = 0
  /\ scraperPc = "idle"
  /\ patternIdx = 1 /\ rangeIdx = 1 /\ page = 1
  /\ items = <<>> /\ results = <<>> /\ seenRepos = {}
  /\ quota = "available"
  /\ lastSearch = NoSearch /\ lastStep = NoStep /\ sleptSinceSearch = FALSE
  /\ hitCount = [k \in RepoKeys |-> 0]
  /\ InitIdleImport

NextRuns ==
  \E r \in RunIds :
    /\ \/ RunTriggered(r) \/ RunFound(r) \/ RunFailed(r)
       \/ RunProcessApi(r) \/ RunCompletes(r)
    /\ UNCHANGED <<crawlVars, runVars, gateVars, dlVars, batchVars, saveVars,
                   importVars>>

SpecRuns == InitRuns /\ [][NextRuns]_vars

(***************************************************************************)
(* The APIs.guru import (apisguru-importer.js 124-224, started by          *)
(* part_003 234-249 and 375-407).  Imports are requested one after the     *)
(* other: a new one starts when the previous importAll has returned or     *)
(* thrown.  One iteration of the loop over apisToImport is one step.       *)
(***************************************************************************)

MaxImports == 2           \* imports requested against one catalog
MaxListed == 2            \* longest list served by APIs.guru

\* entries of the list after convertToInternalFormat (lines 60-77): the
\* fields the import reads
GuruApis ==
  {[name |-> "Stripe", version |-> "1.0", categories |-> <<>>],
   [name |-> "Stripe", version |-> "2.0", categories |-> <<"financial">>]}

\* req.body.maxApis; 0 stands for the falsy values (null, undefined, 0),
\* which line 151 treats alike
MaxApisSamples == {0, 1}

\* line 151: maxApis ? apis.slice(0, maxApis) : apis
Selected(apis, limit) ==
  IF limit = 0 THEN apis
  ELSE SubSeq(apis, 1, IF limit < Len(apis) THEN limit ELSE Len(apis))

\* lines 133-140
NewStats ==
  [total |-> 0, downloaded |-> 0, processed |-> 0, skipped |-> 0,
   failed |-> 0, errors |-> <<>>]

\* an existence test by the fresh id of the api
apiExists_ById(rows, api) == \E row \in rows : row.id = api.id

\* lines 112-117: SELECT id FROM apis WHERE name = ? AND version = ?
apiExists(rows, api) ==
  \E row \in rows : row.name = api.name /\ row.version = api.version

\* a failure counted without its entry in stats.errors
CountFailed_NoError(st, api, message) == [st EXCEPT !.failed = @ + 1]

\* lines 171-172 and 214-215: stats.failed++; stats.errors.push({ api, error })
CountFailed(st, api, message) ==
  [st EXCEPT !.failed = @ + 1,
             !.errors = Append(@, [api |-> api.name, error |-> message])]

MsgDownload == "Failed to download spec"
MsgProcessor == "Conversion failed"
MsgCreateApi == "SQLITE_ERROR"
MsgNoGetOrCreateTag == "database.getOrCreateTag is not a function"

\* the api of the current iteration and the id convertToInternalFormat gave it
CurrentApi ==
  [id |-> <<importsStarted, importIdx>>,
   name |-> apisToImport[importIdx].name,
   version |-> apisToImport[importIdx].version,
   categories |-> apisToImport[importIdx].categories]

\* what the iteration that ends now did
TraceEntry(existed, downloadCalled, converterCalled, inserted, counted) ==
  [name |-> CurrentApi.name, version |-> CurrentApi.version,
   categories |-> CurrentApi.categories,
   checked |-> skipExisting, existed |-> existed,
   downloadCalled |-> downloadCalled, converterCalled |-> converterCalled,
   inserted |-> inserted, counted |-> counted]

InLoop == importPc = "loop" /\ importIdx <= Len(apisToImport)

\* the iteration goes past the skip test of lines 157-161
NotSkipped == ~(skipExisting /\ apiExists(apisRows, CurrentApi))

\* part_003 234-249 and 375-388, importer 124-152: the request, the fetch of
\* the list, its conversion and the cut to maxApis
ImportStarted ==
  /\ importPc \in {"idle", "returned", "threw"}
  /\ importsStarted < MaxImports
  /\ importsStarted' = importsStarted + 1
  /\ \E apis \in SeqsUpTo(GuruApis, MaxListed), limit \in MaxApisSamples,
        skip \in BOOLEAN :
       /\ maxApis' = limit
       /\ skipExisting' = skip
       /\ apisToImport' = Selected(apis, limit)
       /\ stats' = [NewStats EXCEPT !.total = Len(apis)]
       /\ everUnchecked' = (everUnchecked \/ ~skip)
  /\ importIdx' = 1
  /\ importTrace' = <<>>
  /\ importPc' = "loop"
  /\ UNCHANGED apisRows

\* lines 15-23 and 221-223: the list cannot be fetched, importAll throws and
\* runAPIsGuruImport (part_003 404-406) logs the error
ImportFetchFails ==
  /\ importPc \in {"idle", "returned", "threw"}
  /\ importsStarted < MaxImports
  /\ importsStarted' = importsStarted + 1
  /\ \E limit \in MaxApisSamples, skip \in BOOLEAN :
       /\ maxApis' = limit
       /\ skipExisting' = skip
  /\ apisToImport' = <<>>
  /\ stats' = NewStats
  /\ importIdx' = 1
  /\ importTrace' = <<>>
  /\ importPc' = "threw"
  /\ UNCHANGED <<apisRows, everUnchecked>>

\* lines 157-161: the api has a record already
ImportSkipped ==
  /\ InLoop
  /\ skipExisting /\ apiExists(apisRows, CurrentApi)
  /\ stats' = [stats EXCEPT !.skipped = @ + 1]
  /\ importTrace' = Append(importTrace,
                      TraceEntry(TRUE, FALSE, FALSE, FALSE, "skipped"))
  /\ importIdx' = importIdx + 1
  /\ UNCHANGED <<importPc, importsStarted, skipExisting, maxApis, apisToImport,
                 apisRows, everUnchecked>>

\* lines 168-174: downloadSpec returns false
ImportDownloadFails ==
  /\ InLoop /\ NotSkipped
  /\ stats' = CountFailed(stats, CurrentApi, MsgDownload)
  /\ importTrace' = Append(importTrace,
       TraceEntry(apiExists(apisRows, CurrentApi),
                  TRUE, FALSE, FALSE, "failed"))
  /\ importIdx' = importIdx + 1
  /\ UNCHANGED <<importPc, importsStarted, skipExisting, maxApis, apisToImport,
                 apisRows, everUnchecked>>

\* lines 176-191 and 212-216: convertToBruno or generateDocs throws
ImportProcessorThrows ==
  /\ InLoop /\ NotSkipped
  /\ stats' = CountFailed([stats EXCEPT !.downloaded = @ + 1],
                          CurrentApi, MsgProcessor)
  /\ importTrace' = Append(importTrace,
       TraceEntry(apiExists(apisRows, CurrentApi),
                  TRUE, TRUE, FALSE, "failed"))
  /\ importIdx' = importIdx + 1
  /\ UNCHANGED <<importPc, importsStarted, skipExisting, maxApis, apisToImport,
                 apisRows, everUnchecked>>

\* lines 194 and 212-216: createApi throws
ImportCreateApiThrows ==
  /\ InLoop /\ NotSkipped
  /\ stats' = CountFailed([stats EXCEPT !.downloaded = @ + 1],
                          CurrentApi, MsgCreateApi)
  /\ importTrace' = Append(importTrace,
       TraceEntry(apiExists(apisRows, CurrentApi),
                  TRUE, TRUE, FALSE, "failed"))
  /\ importIdx' = importIdx + 1
  /\ UNCHANGED <<importPc, importsStarted, skipExisting, maxApis, apisToImport,
                 apisRows, everUnchecked>>

\* lines 194-202 and 212-216: createApi has inserted the record and the api
\* has categories; database.getOrCreateTag (line 199) is not a method of
\* CatalogDatabase (schema.js 132-152 has createTag, getTag, getAllTags and
\* addTagToApi), so the call throws a TypeError and the catch counts a failure
ImportTagsThrow ==
  /\ InLoop /\ NotSkipped
  /\ Len(CurrentApi.categories) > 0
  /\ apisRows' = apisRows \cup {[id |-> CurrentApi.id, name |-> CurrentApi.name,
                                 version |-> CurrentApi.version]}
  /\ stats' = CountFailed([stats EXCEPT !.downloaded = @ + 1],
                          CurrentApi, MsgNoGetOrCreateTag)
  /\ importTrace' = Append(importTrace,
       TraceEntry(apiExists(apisRows, CurrentApi),
                  TRUE, TRUE, TRUE, "failed"))
  /\ importIdx' = importIdx + 1
  /\ UNCHANGED <<importPc, importsStarted, skipExisting, maxApis, apisToImport,
                 everUnchecked>>

\* lines 194-210: the record is inserted, the api has no categories
ImportProcessed ==
  /\ InLoop /\ NotSkipped
  /\ Len(CurrentApi.categories) = 0
  /\ apisRows' = apisRows \cup {[id |-> CurrentApi.id, name |-> CurrentApi.name,
                                 version |-> CurrentApi.version]}
  /\ stats' = [stats EXCEPT !.downloaded = @ + 1, !.processed = @ + 1]
  /\ importTrace' = Append(importTrace,
       TraceEntry(apiExists(apisRows, CurrentApi),
                  TRUE, TRUE, TRUE, "processed"))
  /\ importIdx' = importIdx + 1
  /\ UNCHANGED <<importPc, importsStarted, skipExisting, maxApis, apisToImport,
                 everUnchecked>>

\* line 219: return stats
ImportReturns ==
  /\ importPc = "loop"
  /\ importIdx > Len(apisToImport)
  /\ importPc' = "returned"
  /\ UNCHANGED <<importsStarted, skipExisting, maxApis, apisToImport, importIdx,
                 stats, apisRows, importTrace, everUnchecked>>

InitImport ==
  /\ InitIdleImport
  /\ InitIdleRuns
  /\ InitIdleSave
  /\ gateMin = 0 /\ gateIdx = 1 /\ gateQueried = {}
  /\ dlContent = <<>> /\ dlFile = <<>> /\ dlPc = <<>>
  /\ batchList = <<>> /\ batchResults = <<>> /\ batchPc = "idle"
  /\ batchFiles = {} /\ batchTrace = <<>>
  /\ InitIdleMain

NextImport ==
  /\ \/ ImportStarted \/ ImportFetchFails \/ ImportSkipped
     \/ ImportDownloadFails \/ ImportProcessorThrows \/ ImportCreateApiThrows
     \/ ImportTagsThrow \/ ImportProcessed \/ ImportReturns
  /\ UNCHANGED <<crawlVars, runVars, gateVars, dlVars, batchVars, saveVars,
                 multiVars>>

SpecImport == InitImport /\ [][NextImport]_vars

(***************************************************************************)
(* Claims                                                                  *)
(***************************************************************************)
KeysOf(rs) == {rs[i].key : i \in 1..Len(rs)}
ItemsWithKey(rs, k) == {i \in 1..Len(rs) : rs[i].key = k}
Finalized(row) == row.status \in {"completed", "failed"} /\ row.completed_at # Null
SuccessCount(log) == Cardinality({i \in 1..Len(log) : log[i].success})
SavedCount(log) == Cardinality({i \in 1..Len(log) : log[i].saved})

\* C1 (Spec): at every point of a searchOpenAPIFiles call and at its return,
\* the result list holds at most maxResults items, whatever the search API
\* returns.
C1_ResultCap == scraperPc # "idle" => Len(results) <= maxResults

\* C1 witness: the cap is reached while hits of the page are still waiting.
C1_Witness ==
  /\ maxResults >= 1
  /\ Len(results) = maxResults
  /\ scraperPc = "items"
  /\ items # <<>>

C3_PartitionCoverage ==
  gateIdx > Len(starRanges) =>
    \A s \in gateMin..(MaxThreshold + 1) :
      \E i \in gateQueried : InRange(s, starRanges[i])

\* C4 as stated (Spec): a run that has returned after discovery has attempted
\* every item, is completed, and its apis_processed is the number of items
\* whose pipeline result was success.
C4_ProcessedIsSuccessCount ==
  (runPc = "returned" /\ scrape_runs.status # "failed") =>
    /\ scrape_runs.status = "completed"
    /\ Len(pipelineLog) = Len(results)
    /\ scrape_runs.apis_processed = SuccessCount(pipelineLog)

\* C4 as amended (Spec): a run that has returned after discovery has attempted
\* every item in order, is completed whatever items failed, and its
\* apis_processed is the number of items whose pipeline result was success
\* and whose save step (createApi, classification, tag writes) did not
\* throw; a run is failed only if no item was attempted.
C4_FailureIsolation ==
  runPc = "returned" =>
    \/ /\ scrape_runs.status = "completed"
       /\ Len(pipelineLog) = Len(results)
       /\ \A i \in 1..Len(results) : pipelineLog[i].id = results[i].id
       /\ scrape_runs.apis_found = Len(results)
       /\ scrape_runs.apis_processed = SavedCount(pipelineLog)
       /\ scrape_runs.apis_processed <= SuccessCount(pipelineLog)
    \/ /\ scrape_runs.status = "failed"
       /\ pipelineLog = <<>>

\* C4 witness: two items were found, the pipeline failed for exactly one of
\* them, and the run is completed with apis_processed = 1.
C4_Witness ==
  /\ runPc = "returned"
  /\ Len(results) = 2
  /\ SuccessCount(pipelineLog) = 1
  /\ scrape_runs.status = "completed"
  /\ scrape_runs.apis_processed = 1

\* a result object of convertAndGenerateDocs for api id
WellFormedResult(id, r) ==
  \/ /\ DOMAIN r = {"success", "collection_path", "docs_path", "openapi_path"}
     /\ r.success = TRUE
     /\ r.collection_path = collectionPathOf(id)
     /\ r.docs_path = docsPathOf(id)
     /\ r.openapi_path = openapiPathOf(id)
  \/ /\ DOMAIN r = {"success", "error"}
     /\ r.success = FALSE
     /\ r.error # ""

\* C5 (SpecBatch): convertAndGenerateDocs never throws into processBatch and
\* every call yields one well-formed result (success with the three paths,
\* or failure with a message); processBatch returns one result per item, in
\* the order of the items.
C5_PipelineTotal ==
  /\ batchPc # "threw"
  /\ Len(batchResults) <= Len(batchList)
  /\ \A i \in 1..Len(batchResults) :
       /\ batchResults[i].api = batchList[i]
       /\ WellFormedResult(batchList[i], batchResults[i].result)
  /\ (batchPc = "returned" => Len(batchResults) = Len(batchList))

\* C5 witness: a batch of three has returned with a failure and a success
\* among its results.
C5_Witness ==
  /\ batchPc = "returned"
  /\ Len(batchList) = 3
  /\ \E i, j \in 1..Len(batchResults) :
       batchResults[i].result.success /\ ~batchResults[j].result.success

\* C6 (Spec): no search call is issued while the quota is used up and its
\* reset time has not passed.
C6_NoSearchWhileExhausted ==
  lastSearch.outcome # "none" => lastSearch.quotaMet # "exhausted"

C8_RunFinalized ==
  /\ [](runPc = "returned" => Finalized(scrape_runs))
  /\ (scrape_runs.status = "running") ~> Finalized(scrape_runs)

\* C8 witness: a run is completed although the pipeline failed for an item.
C8_Witness ==
  /\ runPc = "returned"
  /\ scrape_runs.status = "completed"
  /\ scrape_runs.completed_at # Null
  /\ \E i \in 1..Len(pipelineLog) : ~pipelineLog[i].success

\* the text parses as JSON or as YAML
Parses(text) == text.syntax \in {"json", "yaml"}
\* the parsed document has an openapi or a swagger field
HasVersionField(doc) == doc.openapi # Absent \/ doc.swagger # Absent
\* the parsed document has an openapi or a swagger field with a truthy value
HasTruthyVersionField(doc) == doc.openapi \notin {Absent, ""} \/ doc.swagger \notin {Absent, ""}

\* C9 as stated (SpecNormalizer): a download whose curl succeeded is accepted
\* if and only if its content parses and the document has one of the two
\* fields.
C9_AcceptIffHasField ==
  \A i \in DownloadIds :
    dlPc[i] \in {"accepted", "rejected"} =>
      (dlPc[i] = "accepted" <=>
         (Parses(dlContent[i]) /\ HasVersionField(dlContent[i].doc)))

\* C9 as amended (SpecNormalizer): it is accepted if and only if its content
\* parses and the document has one of the two fields with a truthy value
\* (not the empty string); every other content is rejected, with the file
\* left as downloaded.
C9_AcceptIffTruthyField ==
  \A i \in DownloadIds :
    dlPc[i] \in {"accepted", "rejected"} =>
      /\ dlPc[i] = "accepted" <=>
           (Parses(dlContent[i]) /\ HasTruthyVersionField(dlContent[i].doc))
      /\ dlPc[i] = "rejected" => dlFile[i] = dlContent[i]

\* C9 witness: {"swagger": "2.0"} is accepted and a JSON object with neither
\* field is rejected.
C9_Witness ==
  /\ dlPc[1] = "accepted"
  /\ dlContent[1].syntax = "json"
  /\ dlContent[1].doc = [root |-> "object", openapi |-> Absent, swagger |-> "2.0"]
  /\ dlPc[2] = "rejected"
  /\ dlContent[2].syntax = "json"
  /\ dlContent[2].doc = [root |-> "object", openapi |-> Absent, swagger |-> Absent]

\* download 1 is YAML, download 2 is JSON, of the same document, both accepted
YamlAndJsonOfOneDocument ==
  /\ dlPc[1] = "accepted" /\ dlPc[2] = "accepted"
  /\ dlContent[1].syntax = "yaml"
  /\ dlContent[2].syntax = "json"
  /\ dlContent[1].doc = dlContent[2].doc

StageOrder == <<"download", "convert", "render">>
\* the stages called are the first n stages, in order
InStageOrder(stages) ==
  /\ Len(stages) \in 1..3
  /\ \A i \in 1..Len(stages) : stages[i] = StageOrder[i]
\* the last stage called
LastStage(stages) == stages[Len(stages)]
\* the i-th api of the batch has been processed
BatchDone == 1..Len(batchTrace)
\* the artifacts of the stages that completed before the last stage called
EarlierArtifactsKept(i) ==
  /\ Len(batchTrace[i].stages) >= 2 => openapiPathOf(batchList[i]) \in batchFiles
  /\ Len(batchTrace[i].stages) >= 3 => collectionPathOf(batchList[i]) \in batchFiles
\* the render stage of the i-th api failed in its bin/bruno-docs command
RenderCommandFailed(i) ==
  /\ "render" \in batchTrace[i].failed
  /\ batchTrace[i].messages["render"] # MsgMkdir

\* C11 as stated (SpecBatch): an item whose render stage failed has a
\* success:false result, and a success:true result means that no stage
\* failed and that the spec file, the collection directory and the docs
\* directory exist.
C11_RenderFailureTerminal ==
  \A i \in 1..Len(batchResults) :
    /\ "render" \in batchTrace[i].failed => ~batchResults[i].result.success
    /\ batchResults[i].result.success =>
         /\ batchTrace[i].failed = {}
         /\ {openapiPathOf(batchList[i]), collectionPathOf(batchList[i]),
             docsPathOf(batchList[i])} \subseteq batchFiles

\* C11 as amended (SpecBatch): a failing render command is not terminal: the
\* result is success:true all the same; only a docs directory that cannot be
\* created fails the item at the render stage.  A success:true result means
\* that all three stages were called, that download and convert completed
\* without error and that the spec file and the collection directory exist.
C11_RenderCommandFailureTolerated ==
  \A i \in 1..Len(batchResults) :
    /\ RenderCommandFailed(i) => batchResults[i].result.success
    /\ ("render" \in batchTrace[i].failed /\ ~RenderCommandFailed(i)) =>
         /\ ~batchResults[i].result.success
         /\ batchResults[i].result.error = MsgMkdir
    /\ batchResults[i].result.success =>
         /\ batchTrace[i].stages = StageOrder
         /\ batchTrace[i].failed \subseteq {"render"}
         /\ {openapiPathOf(batchList[i]), collectionPathOf(batchList[i])}
              \subseteq batchFiles

\* C11 witness: the render command of an item failed and left no docs
\* directory, and the item's result is success:true.
C11_Witness ==
  \E i \in 1..Len(batchResults) :
    /\ RenderCommandFailed(i)
    /\ batchResults[i].result.success
    /\ docsPathOf(batchList[i]) \notin batchFiles

\* C12 as stated (SpecBatch): the stages of an item are called in the order
\* download, convert, render; when a stage fails it is the last one called,
\* the result is a failure with the message of that stage, and the artifacts
\* of the stages before it are in place, also after later items.
C12_StageCheckpointing ==
  \A i \in BatchDone :
    /\ InStageOrder(batchTrace[i].stages)
    /\ EarlierArtifactsKept(i)
    /\ batchTrace[i].failed # {} =>
         /\ batchTrace[i].failed = {LastStage(batchTrace[i].stages)}
         /\ ~batchResults[i].result.success
         /\ batchResults[i].result.error =
              batchTrace[i].messages[LastStage(batchTrace[i].stages)]

\* C12 as amended (SpecBatch): the same for every failure but that of the
\* render command, which is the last stage and yields no failure message:
\* the result is then success:true.  An artifact once written is never
\* deleted.
C12_CheckpointingOfThrowingStages ==
  \A i \in BatchDone :
    /\ InStageOrder(batchTrace[i].stages)
    /\ EarlierArtifactsKept(i)
    /\ batchTrace[i].failed # {} =>
         /\ batchTrace[i].failed = {LastStage(batchTrace[i].stages)}
         /\ IF RenderCommandFailed(i)
            THEN batchResults[i].result.success
            ELSE /\ ~batchResults[i].result.success
                 /\ batchResults[i].result.error =
                      batchTrace[i].messages[LastStage(batchTrace[i].stages)]

\* C12 witness: the convert stage of the first item failed, render was not
\* called for it, a later item was processed, and the first item's spec file
\* is still in place.
C12_Witness ==
  /\ Len(batchTrace) >= 2
  /\ batchTrace[1].stages = <<"download", "convert">>
  /\ batchTrace[1].failed = {"convert"}
  /\ batchResults[1].result.error = MsgConvert
  /\ openapiPathOf(batchList[1]) \in batchFiles

\* the orders in which the run's row can have been written so far
RunWriteOrders ==
  { <<>>,
    <<"createScrapeRun">>,
    <<"createScrapeRun", "failed">>,
    <<"createScrapeRun", "apis_found">>,
    <<"createScrapeRun", "apis_found", "completed">> }
\* the status the writes made so far leave in the row
StatusAfter(writes) ==
  IF writes = <<>> THEN "norow"
  ELSE IF writes[Len(writes)] \in {"completed", "failed"} THEN writes[Len(writes)]
  ELSE "running"
\* the write was made
Written(writes, w) == \E i \in 1..Len(writes) : writes[i] = w

\* C13 (Spec): the run's row is created as 'running' before the crawl starts;
\* its status is written once more at most, to 'completed' or 'failed', and
\* exactly once when runScrape has returned; completed_at is set exactly
\* when the status is 'completed' or 'failed'; apis_found is written once at
\* most, after searchOpenAPIFiles has returned and before the first item is
\* processed.
C13_RunLifecycle ==
  /\ runWrites \in RunWriteOrders
  /\ scrape_runs.status = StatusAfter(runWrites)
  /\ (scrape_runs.completed_at # Null) <=> (scrape_runs.status \in {"completed", "failed"})
  /\ (scraperPc # "idle" \/ lastSearch.outcome # "none") => Written(runWrites, "createScrapeRun")
  /\ Written(runWrites, "apis_found") =>
       (scraperPc = "returned" /\ scrape_runs.apis_found = Len(results))
  /\ pipelineLog # <<>> => Written(runWrites, "apis_found")
  /\ runPc = "returned" =>
       (Written(runWrites, "completed") \/ Written(runWrites, "failed"))

\* C13 witness: a run with an item processed has gone from 'running' to
\* 'completed' through the write of apis_found.
C13_Witness ==
  /\ runPc = "returned"
  /\ runWrites = <<"createScrapeRun", "apis_found", "completed">>
  /\ scrape_runs.apis_found >= 1
  /\ pipelineLog # <<>>

\* C14 (Spec): with no token configured the trigger is rejected and nothing
\* else happens: no run row, no search or enrichment call, no item
\* processed or saved.
C14_MissingTokenRejects ==
  ~githubToken =>
    /\ runPc \in {"idle", "rejected"}
    /\ scrape_runs = NoRow /\ runWrites = <<>>
    /\ scraperPc = "idle"
    /\ lastSearch = NoSearch /\ lastStep = NoStep
    /\ results = <<>> /\ pipelineLog = <<>> /\ processed = 0

\* C14 witness: the trigger was called with no token and returned the error.
C14_Witness == ~githubToken /\ runPc = "rejected"

\* C16 as stated (Spec): the conversion of item i has started when item i+1
\* is discovered.
C16_Interleaved ==
  Len(results) >= 2 => Len(pipelineLog) >= Len(results) - 1

\* C16 as amended (Spec): no item is handed to the pipeline before
\* searchOpenAPIFiles has returned the whole list; the items are then
\* converted one by one in emission order.
C16_DiscoveryBeforeConversion ==
  /\ runPc = "discovering" => pipelineLog = <<>>
  /\ pipelineLog # <<>> =>
       /\ scraperPc = "returned"
       /\ Len(pipelineLog) <= Len(results)
       /\ \A i \in 1..Len(pipelineLog) : pipelineLog[i].id = results[i].id

\* C16 witness: the first of two discovered items has been converted, the
\* second not yet.
C16_Witness ==
  /\ runPc = "processing"
  /\ Len(results) = 2
  /\ Len(pipelineLog) = 1

\* C17 (Spec): no search call, repo-info call or content call is issued
\* while the result list holds maxResults items or more.
C17_NoCallAtCap ==
  /\ ~lastSearch.atCap
  /\ lastStep.atCap => lastStep.calls = {}
  /\ lastStep.calls # {} => Len(results) <= maxResults

\* C17 witness: the cap was reached in the first query and the crawl has
\* returned without going through the ranges and patterns that remained.
C17_Witness ==
  /\ scraperPc = "returned"
  /\ maxResults >= 1 /\ Len(results) = maxResults
  /\ patternIdx = 1 /\ rangeIdx < Len(starRanges)
  /\ lastSearch.pattern = 1 /\ lastSearch.outcome = "items"

SearchErrors == {"quotaError", "error"}

\* C18 (Spec): a failing search call ends the pagination of its query and
\* nothing else: the items and the seen keys are kept, the crawl goes on
\* with the next range (or the ranges' end), and the run is not failed by it.
C18_SearchFailureIsolation ==
  /\ [](scrape_runs.status = "failed" => lastSearch.outcome = "none")
  /\ [][(lastSearch' # lastSearch /\ lastSearch'.outcome \in SearchErrors) =>
          /\ results' = results /\ seenRepos' = seenRepos
          /\ scraperPc' = "afterPages"
          /\ runPc' = "discovering"]_vars
  /\ [][(/\ scraperPc = "afterPages" /\ scraperPc' # "afterPages"
          /\ lastSearch.outcome \in SearchErrors
          /\ lastSearch.pattern = patternIdx /\ lastSearch.range = rangeIdx) =>
          /\ results' = results /\ patternIdx' = patternIdx
          /\ IF rangeIdx < Len(starRanges)
             THEN scraperPc' = "range" /\ rangeIdx' = rangeIdx + 1
             ELSE scraperPc' = "afterRanges"]_vars

\* C18 witness: after a failed search the crawl, with an item accepted
\* before, searches another query.
C18_Witness ==
  /\ lastSearch.outcome = "error"
  /\ Len(results) >= 1
  /\ scraperPc = "page"
  /\ lastSearch.range < rangeIdx

\* C19 (Spec): a hit whose repo-info or content fetch fails is skipped: no
\* item is pushed, its key is not recorded as seen, the item loop goes on
\* with the next hit of the page, and after the last hit with the next page.
C19_CandidateFailureIsolation ==
  /\ [](lastStep.kind = "fetchError" =>
          /\ scraperPc = "items" /\ runPc = "discovering"
          /\ lastStep.key \notin seenRepos
          /\ lastStep.key \notin KeysOf(results))
  /\ [][(lastStep'.kind = "fetchError" /\ items' # items) =>
          /\ items # <<>> /\ items' = Tail(items)
          /\ lastStep'.key = Head(items)
          /\ results' = results /\ seenRepos' = seenRepos
          /\ page' = page /\ rangeIdx' = rangeIdx /\ patternIdx' = patternIdx]_vars
  /\ [][(lastStep.kind = "fetchError" /\ items = <<>> /\ lastStep' # lastStep) =>
          /\ results' = results
          /\ IF page < maxPages
             THEN scraperPc' = "page" /\ page' = page + 1
             ELSE scraperPc' = "afterPages"]_vars

\* C19 witness: the content fetch of a hit failed and the next hit of the
\* page is waiting.
C19_Witness ==
  /\ lastStep.kind = "fetchError"
  /\ lastStep.calls = {"repos.get", "repos.getContent"}
  /\ items # <<>>

\* C20 (Spec): for a hit whose key is in seenRepos no repo-info call and no
\* content call is issued; every hit for which a call is issued was tested
\* and found new.
C20_DedupBeforeEnrichment ==
  /\ lastStep.seen => (lastStep.calls = {} /\ lastStep.kind \in {"duplicate", "capBreak"})
  /\ lastStep.kind = "duplicate" => lastStep.seen
  /\ lastStep.calls # {} => "repos.get" \in lastStep.calls

\* C20 witness: a hit with a key already seen was skipped.
C20_Witness ==
  /\ lastStep.kind = "duplicate"
  /\ lastStep.key \in KeysOf(results)

\* the tags attached to the api of row id
TagsOf(id) == {t \in tagsTable : <<id, t>> \in apiTagsTable}
\* the categories one of whose keywords occurs in the text
MatchingCategories(text) ==
  {categories[j].category : j \in
     {k \in 1..Len(categories) :
        \E kw \in categories[k].keywords :
          \E from \in 1..Len(text), to \in 1..Len(text) : SubSeq(text, from, to) = kw}}
\* name and description in lower case, joined, when both are strings
LowerCased(api) ==
  [i \in 1..Len(api.name.chars) |-> LowerChar(api.name.chars[i])]
    \o <<" ">>
    \o [i \in 1..Len(api.description.chars) |-> LowerChar(api.description.chars[i])]
\* name and description are strings
HasStringTexts(api) == api.name.type = "string" /\ api.description.type = "string"

\* C15 (SpecSave): every api with a row in table apis has at least one tag,
\* and when its name and description are strings its tags are the matching
\* categories, or 'General' alone when no category matches.
C15_Classification ==
  \A id \in apisTable :
    /\ TagsOf(id) # {}
    /\ HasStringTexts(saveApis[id]) =>
         LET matching == MatchingCategories(LowerCased(saveApis[id])) IN
           /\ matching # {} => TagsOf(id) = matching
           /\ matching = {} => TagsOf(id) = {"General"}

\* the classification of the apis whose name and description are strings
ClassificationOfStrings ==
  \A id \in apisTable :
    HasStringTexts(saveApis[id]) =>
      LET matching == MatchingCategories(LowerCased(saveApis[id])) IN
        /\ TagsOf(id) # {}
        /\ matching # {} => TagsOf(id) = matching
        /\ matching = {} => TagsOf(id) = {"General"}

\* C21 (Spec): every item of the result list has at least minStars stars,
\* whatever the range of the query that returned its hit.
C21_PopularityPostFilter ==
  \A i \in 1..Len(results) : results[i].stars >= minStars

\* C21 witness: a repository with exactly minStars stars, returned by the
\* query of the range 1000+, is in the result list.
C21_Witness ==
  /\ Len(results) >= 1
  /\ results[1].stars = minStars
  /\ lastSearch.pattern = 1 /\ lastSearch.range = 1 /\ lastSearch.page = 1

\* the query of search call b comes after the query of search call a in the
\* order of the pattern loop and the range loop
LaterQuery(a, b) ==
  \/ b.pattern > a.pattern
  \/ (b.pattern = a.pattern /\ b.range > a.range)

\* C22 (FairSpec): searchOpenAPIFiles ends; the search calls of one query
\* have the page numbers 1, 2, ... up to 10 at most, each page asked once,
\* the next page only after a page with hits (so none after an empty page),
\* and a query once left is never searched again.
C22_DiscoveryTerminates ==
  /\ [](lastSearch.page <= maxPages /\ lastSearch.attempts <= 1)
  /\ [][lastSearch' # lastSearch =>
          IF lastSearch'.pattern = lastSearch.pattern /\ lastSearch'.range = lastSearch.range
          THEN /\ lastSearch'.page = lastSearch.page + 1
               /\ lastSearch.outcome = "items"
          ELSE /\ lastSearch'.page = 1
               /\ LaterQuery(lastSearch, lastSearch')]_vars
  /\ (runPc = "discovering") ~> (scraperPc = "returned" \/ runPc = "returned")

\* C22 witness: the tenth page of a query had hits and its pagination has
\* ended, below the cap, by the page limit.
C22_Witness ==
  /\ lastSearch.page = maxPages
  /\ lastSearch.outcome = "items"
  /\ scraperPc = "afterPages"
  /\ Len(results) < maxResults

\* C23 (SpecRuns): after any scrape runs against one catalog, table apis
\* holds at most one record per owner/repo/path.
C23_CrossRunDedup ==
  \A c, d \in catalog : c.key = d.key => c = d

\* the number of iterations of run r that ended with `processed++`
SavedBy(r) ==
  Cardinality({i \in 1..Len(runOutcomes[r]) : runOutcomes[r][i] = "saved"})

\* C30 (SpecRuns): with the steps of two runs interleaved, a run changes
\* only the row of scrape_runs that has its own id, and the apis_found and
\* apis_processed of a completed run are the counts of that run's own apis.
C30_RunRecordIsolation ==
  /\ \A w \in rowWrites : w[2] = w[1]
  /\ \A r \in RunIds :
       /\ runState[r] \in {"processing", "completed"} =>
            runsTable[r].apis_found = Len(runApis[r])
       /\ runState[r] = "completed" =>
            /\ runsTable[r].status = "completed"
            /\ runsTable[r].completed_at # Null
            /\ runsTable[r].apis_processed = SavedBy(r)
       /\ runState[r] = "failed" => runsTable[r].status = "failed"
       /\ runState[r] \in {"discovering", "processing"} =>
            /\ runsTable[r].status = "running"
            /\ runsTable[r].completed_at = Null
            /\ runsTable[r].apis_processed = 0

\* C30 witness: one run has completed with two apis processed while the
\* other, which found one api and processed it, is still in its loop.
C30_Witness ==
  \E r, q \in RunIds :
    /\ r # q
    /\ runState[r] = "completed" /\ runsTable[r].apis_processed = 2
    /\ runState[q] = "processing" /\ runsTable[q].apis_found = 1
    /\ runProcessed[q] = 1

\* the iterations of the current import that ran with skipExisting on and
\* found a record for the (name, version) of their api
FoundExisting ==
  {i \in 1..Len(importTrace) : importTrace[i].checked /\ importTrace[i].existed}

C27_AccountingMatchesCatalog ==
  \A i \in 1..Len(importTrace) :
    /\ importTrace[i].inserted => importTrace[i].counted = "processed"
    /\ importTrace[i].counted = "failed" => ~importTrace[i].inserted

\* C28 (SpecImport): when importAll returns, skipped + failed + processed
\* is the number of apis selected for import, processed <= downloaded,
\* stats.errors has stats.failed entries, and every selected api was
\* handled whatever happened to the ones before it.
C28_StatsConservation ==
  /\ stats.skipped + stats.failed + stats.processed = Len(importTrace)
  /\ stats.processed <= stats.downloaded
  /\ Len(stats.errors) = stats.failed
  /\ importPc = "loop" => Len(importTrace) = importIdx - 1
  /\ importPc = "returned" =>
       /\ Len(importTrace) = Len(apisToImport)
       /\ stats.skipped + stats.failed + stats.processed = Len(apisToImport)
       /\ Len(apisToImport) =
            (IF maxApis # 0 /\ maxApis < stats.total THEN maxApis ELSE stats.total)

\* C28 witness: an import of two apis has returned with the first failed and
\* the second processed.
C28_Witness ==
  /\ importPc = "returned"
  /\ Len(importTrace) = 2
  /\ importTrace[1].counted = "failed"
  /\ importTrace[2].counted = "processed"
  /\ stats.failed = 1 /\ stats.processed = 1

\* C25 (Spec): between any two consecutive search calls of one run the
\* crawler has made a delay step (this.sleep).
C25_RateLimitDelays ==
  [][(lastSearch' # lastSearch /\ lastSearch # NoSearch) => sleptSinceSearch]_vars

\* C26 (Spec): the hits of a page are taken in the order the search returned
\* them, and an accepted hit is put at the end of the result list, which
\* otherwise never changes: the result list is an order-preserving
\* subsequence of the concatenation of the processed pages.
C26_EmissionOrder ==
  /\ [][results' # results =>
          /\ items # <<>>
          /\ Len(results') = Len(results) + 1
          /\ SubSeq(results', 1, Len(results)) = results
          /\ results'[Len(results')].key = Head(items)
          /\ items' = Tail(items)]_vars
  /\ [][items' # items =>
          \/ (items = <<>> /\ lastSearch' # lastSearch)
          \/ items' = <<>>
          \/ items' = Tail(items)]_vars

\* C26 witness: both hits of the first page of the first query were accepted.
C26_Witness ==
  /\ Len(results) = 2
  /\ lastSearch.pattern = 1 /\ lastSearch.range = 1 /\ lastSearch.page = 1
  /\ lastSearch.attempts = 1
  /\ scraperPc = "items" /\ items = <<>>

\* the iterations of the loops over apis made so far, as <<run, index>>
Iterations ==
  {it \in RunIds \X (1..Cardinality(RepoKeys)) : it[2] <= Len(runOutcomes[it[1]])}

\* table apis has a row for the item of iteration it
HasRecord(it) == \E c \in catalog : c.id = it

\* C29 as stated (SpecRuns): an item has a catalog record if and only if its
\* pipeline result was success.
C29_RecordIffSuccess ==
  \A it \in Iterations :
    HasRecord(it) <=> runOutcomes[it[1]][it[2]] # "pipelineFailed"

\* C29 amended (SpecRuns): an item has a catalog record if and only if its
\* pipeline result was success and createApi did not throw; every record
\* has the collection_path and the docs_path of its result; an item whose
\* pipeline result was failure has no record.
C29_RecordOnlyForSuccess ==
  /\ \A c \in catalog :
       /\ c.id \in Iterations
       /\ runOutcomes[c.id[1]][c.id[2]] \in {"tagsThrow", "saved"}
       /\ c.collection_path = collectionPathOf(c.id)
       /\ c.docs_path = docsPathOf(c.id)
  /\ \A it \in Iterations :
       /\ runOutcomes[it[1]][it[2]] \in {"tagsThrow", "saved"} => HasRecord(it)
       /\ runOutcomes[it[1]][it[2]] \in {"pipelineFailed", "createApiThrows"}
            => ~HasRecord(it)

\* C29 witness: of the two items of a run the first failed in the pipeline
\* and has no record, the second succeeded and has one.
C29_Witness ==
  \E r \in RunIds :
    /\ runOutcomes[r] = <<"pipelineFailed", "saved">>
    /\ ~HasRecord(<<r, 1>>)
    /\ HasRecord(<<r, 2>>)

====
